---- MODULE Spec2Model ----
(***************************************************************************)
(* multibg-sway: the per-output wallpaper cache (src/wayland.rs), the      *)
(* WorkspaceVisible channel with its waker (src/compositors.rs,            *)
(* src/poll.rs), the main event loop (src/main.rs), the signal handlers    *)
(* (src/signal.rs) and the choice of the backend (src/compositors.rs).     *)
(*                                                                         *)
(* Spec         the handlers in any order on the outputs found at startup, *)
(*              with the bridge thread sending events.                     *)
(* SpecAudit    Spec, counting the attaches, releases and anomaly reports  *)
(*              of the first wl_buffer.                                    *)
(* SpecHotplug  the handlers in any order with outputs coming and going.   *)
(* SpecLoop     the turns of the loop of run() in their order, with the    *)
(*              bridge thread sending events.                              *)
(* FairSpecLoop SpecLoop from the one-layer setup, with both threads       *)
(*              scheduled.                                                 *)
(* SpecLoad     outputs coming and going with unreadable directories and   *)
(*              files that fail to load.                                   *)
(* SpecFault    Spec, with the compositor connections failing.             *)
(* SpecSignal   the turns of the loop with signals reaching the process;   *)
(*              FairSpecSignal has the main thread scheduled.              *)
(* SpecSelect   the choice of the backend at startup.                      *)
(* SpecIo       SpecLoop from the one-layer setup, with the flush and the  *)
(*              read of the display socket succeeding or not.              *)
(* SpecNiri     the turns of the loop with niri's subscription on the      *)
(*              bridge thread.                                             *)
(* SpecHypr     Hyprland's event loop reading a stream of records in       *)
(*              chunks of any size.                                        *)
(* SpecHyprLive Hyprland changing its state and writing events while the   *)
(*              loop reads them.                                           *)
(* SpecRequest  first configures answered by sway or niri from what the    *)
(*              compositor lists.                                          *)
(* SpecUpdate   configures, draws and outputs changing mode or transform.   *)
(* SpecExit     the loop with display events, bridge sends and signals.    *)
(* SpecShm      outputs of any size coming and going, with the pixel       *)
(*              format chosen at first use and the shm pools recorded.     *)
(***************************************************************************)
EXTENDS Integers, Sequences, FiniteSets, TLC

\* ------------------------------------------------------------- bounds
\* wl_buffers created over a run (each Rc::new(Wallpaper) takes a fresh one)
MaxWallpapers == 2
\* cap of a Wallpaper's active_count (attaches not yet released)
MaxActive == 2
\* WorkspaceVisible items held by the channel at a time
MaxQueue == 1
\* release notifications at active_count zero taken by the audited wl_buffer
MaxAnomalies == 2
\* WorkspaceVisible items held by the channel at a time, under SpecLoop
MaxBurst == 2
\* WorkspaceVisible items the bridge thread sends over a run, under SpecLoop
MaxSent == 3
\* signals delivered to the process over a run, under SpecSignal
MaxSignals == 3
\* bytes the signal self-pipe holds before a non-blocking write fails
MaxPipe == 2
\* flushes that would block within one call of flush_blocking, under SpecIo
MaxStalls == 2
\* length of the read buffer of Hyprland's event loop when it starts (2000
\* in the code)
HyprBufLen == 16
\* events Hyprland writes over a run, under SpecHyprLive
MaxHyprEvents == 3
\* width of the current mode of an output, under SpecShm
MaxWidth == 4

\* ------------------------------------------------------------- inputs
NoWorkspace == "<none>"
DefaultKey == "_default"

OutputNames == {"OUT1", "OUT2"}
\* workspace names the compositor reports
WorkspaceNames == {"1", "2"}

\* info.modes current dimensions and info.transform of a new output
OutputModes == {<<2, 1>>}
Transforms == {"Normal", "_180", "_90"}

WallpaperFile(ws, path, modified) ==
    [workspace |-> ws, canon_path |-> path, canon_modified |-> modified]

\* listings of <root>/<output-name>, in directory order
DirListings ==
    { << WallpaperFile("1", "a", 1), WallpaperFile(DefaultKey, "b", 1) >>,
      << WallpaperFile("1", "a", 2), WallpaperFile("2", "a", 2) >> }
\* results of output_wallpaper_files(&output_dir): Ok(listing) or Err(e)
DirErr == [ok |-> FALSE, files |-> <<>>]
DirResults == { [ok |-> TRUE, files |-> l] : l \in DirListings } \cup {DirErr}
\* canonical paths whose load_wallpaper / RawPool::new fails
FailingSets == { {}, {"b"} }
\* the same, with the path that comes first in a listing
LoadFailingSets == { {}, {"a"}, {"b"} }
\* a directory result with the failures that can show in it
LoadsWith(failingSets) ==
    { load \in [dir : DirResults, failing : failingSets] :
        \A path \in load.failing :
            \E k \in 1..Len(load.dir.files) : load.dir.files[k].canon_path = path }
OutputLoads == LoadsWith(FailingSets)

\* answers of interface.request_visible_workspaces(): at most one visible
\* workspace per output
WorkspaceVisible(o, ws) == [output |-> o, workspace_name |-> ws]
VisibleAnswers ==
    { <<>> }
    \cup { << WorkspaceVisible(o, ws) >> : o \in OutputNames, ws \in WorkspaceNames }
    \cup { << WorkspaceVisible("OUT1", w1), WorkspaceVisible("OUT2", w2) >> :
             w1 \in WorkspaceNames, w2 \in WorkspaceNames }

\* ------------------------------------------------------------- state
VARIABLES
    outputs,            \* names of the live outputs (OutputState)
    background_layers,  \* State::background_layers, a Vec<BackgroundLayer>
    wallpapers,         \* arena of Wallpaper, indexed by wl_buffer identity
    channel,            \* the mpsc channel of WorkspaceVisible (tx -> rx)
    wakePending,        \* the waker descriptor is readable
    bridgePc,           \* the bridge thread's position in EventSender::send
    audit,              \* of one wl_buffer: releases minus attaches, anomaly reports
    last,               \* what the last handler did (requests, reports)
    loop,               \* run(): position in the loop body, poll's result, logs
    proc,               \* the process: whether it runs, signal handlers, self-pipe
    boot,               \* the environment, the backend selected, the compositor's workspaces
    shm,                \* wl_shm: formats advertised, State's pixel format, pools
    hypr                \* Hyprland's bridge thread: its sockets, read buffer, sends

cacheVars == <<outputs, background_layers, wallpapers>>
vars == <<outputs, background_layers, wallpapers, channel, wakePending, bridgePc,
          audit, last, loop, proc, boot, shm, hypr>>

\* ------------------------------------------------------------- reports
\* the log lines of the handlers (error!, warn! and one debug!)
ErrNotConfigured == "error: cannot draw on the not yet configured layer"
DebugSkipDraw == "debug: skipping draw, wallpaper is already set"
ErrNoWallpaper == "error: there is no wallpaper image for the workspace"
ErrUnknownOutput == "error: workspace is on an unknown output"
ErrUnexpectedRelease == "error: unexpected release event"
WarnReleaseDestroyed == "warn: release event for already destroyed wl_buffer"
WarnDestroyingActive == "warn: destroying an active wl_buffer"
ErrNoWallpaperDir == "error: failed to get wallpapers for new output"
ErrLoadFailed == "error: failed to load wallpaper"
ErrUnknownDestroyed == "error: ignoring destroyed output with unknown name"
WarnNotImplemented == "warn: output mode or transform changes are not yet implemented"
ErrUpdatedNoLayer == "error: updated output has no background layer"

\* ------------------------------------------------------------- helpers
Range(s) == { s[i] : i \in 1..Len(s) }

\* Iterator::position / find: the index of the first element of s that is in
\* `matching`, or 0
FirstIndex(s, matching) ==
    IF \E i \in 1..Len(s) : s[i] \in matching
    THEN CHOOSE i \in 1..Len(s) :
            s[i] \in matching /\ \A j \in 1..(i - 1) : s[j] \notin matching
    ELSE 0

\* variant: nothing is removed
SwapRemoveNone(s, i) == s

\* Vec::swap_remove(i): the last element takes the place of the removed one
SwapRemove(s, i) ==
    IF i = Len(s) THEN SubSeq(s, 1, Len(s) - 1)
    ELSE [ k \in 1..(Len(s) - 1) |-> IF k = i THEN s[Len(s)] ELSE s[k] ]

Request(kind, o, buf) == [req |-> kind, output |-> o, buffer |-> buf]

NoResult(layers, wps) ==
    [layers |-> layers, wallpapers |-> wps, requests |-> <<>>, reports |-> <<>>]

\* ------------------------------------------------------------- draw
\* variant: the configured flag is not consulted
NeverUnconfigured(self) == FALSE

\* `if !self.configured`: the layer may not be drawn on yet
NotYetConfigured(self) == ~self.configured

\* variant: the draw is never taken to be redundant
NeverAlreadySet(self, workspace_name) == FALSE

\* variant: the draw is redundant too when the name has a slot holding the
\* Wallpaper of the current workspace
AlreadySetByBuffer(self, workspace_name) ==
    \/ self.current_workspace = workspace_name
    \/ \E j, k \in 1..Len(self.workspace_backgrounds) :
            /\ self.workspace_backgrounds[j].workspace_name = workspace_name
            /\ self.workspace_backgrounds[k].workspace_name = self.current_workspace
            /\ self.workspace_backgrounds[j].wallpaper =
                    self.workspace_backgrounds[k].wallpaper

\* `self.current_workspace.as_deref() == Some(workspace_name)`
AlreadySet(self, workspace_name) == self.current_workspace = workspace_name

\* variant: _default is looked up before the exact name
FindWorkspaceBgDefaultFirst(bgs, workspace_name) ==
    LET exact == FirstIndex(bgs, { bg \in Range(bgs) :
                                    bg.workspace_name = workspace_name })
        dflt == FirstIndex(bgs, { bg \in Range(bgs) :
                                    bg.workspace_name = DefaultKey })
    IN  IF dflt # 0 THEN dflt ELSE exact

\* variant: with neither an exact nor a _default slot, the first slot is taken
FindWorkspaceBgOrFirst(bgs, workspace_name) ==
    LET exact == FirstIndex(bgs, { bg \in Range(bgs) :
                                    bg.workspace_name = workspace_name })
        dflt == FirstIndex(bgs, { bg \in Range(bgs) :
                                    bg.workspace_name = DefaultKey })
    IN  IF exact # 0 THEN exact
        ELSE IF dflt # 0 THEN dflt
        ELSE IF bgs # <<>> THEN 1 ELSE 0

\* the slot draw_workspace_bg resolves a name to: the first with exactly
\* that name, or else the first named _default; 0 when there is neither
FindWorkspaceBg(bgs, workspace_name) ==
    LET exact == FirstIndex(bgs, { bg \in Range(bgs) :
                                    bg.workspace_name = workspace_name })
        dflt == FirstIndex(bgs, { bg \in Range(bgs) :
                                    bg.workspace_name = DefaultKey })
    IN  IF exact # 0 THEN exact ELSE dflt

\* variant: the attach is not counted
DrawWorkspaceBgUncounted(layers, wps, i, workspace_name) ==
    LET self == layers[i]
        bgs == self.workspace_backgrounds
        found == FindWorkspaceBg(bgs, workspace_name)
    IN  IF NotYetConfigured(self)
        THEN [NoResult(layers, wps) EXCEPT !.reports = <<ErrNotConfigured>>]
        ELSE IF AlreadySet(self, workspace_name)
        THEN [NoResult(layers, wps) EXCEPT !.reports = <<DebugSkipDraw>>]
        ELSE IF found = 0
        THEN [NoResult(layers, wps) EXCEPT !.reports = <<ErrNoWallpaper>>]
        ELSE LET buf == bgs[found].wallpaper
             IN  [ layers |-> [layers EXCEPT ![i].current_workspace = workspace_name],
                   wallpapers |-> wps,
                   requests |-> << Request("attach", self.output_name, buf),
                                   Request("damage_buffer", self.output_name, 0),
                                   Request("commit", self.output_name, 0) >>,
                   reports |-> <<>> ]

\* BackgroundLayer::draw_workspace_bg on background_layers[i]
DrawWorkspaceBg(layers, wps, i, workspace_name) ==
    LET self == layers[i]
        bgs == self.workspace_backgrounds
        found == FindWorkspaceBg(bgs, workspace_name)
    IN  IF NotYetConfigured(self)
        THEN [NoResult(layers, wps) EXCEPT !.reports = <<ErrNotConfigured>>]
        ELSE IF AlreadySet(self, workspace_name)
        THEN [NoResult(layers, wps) EXCEPT !.reports = <<DebugSkipDraw>>]
        ELSE IF found = 0
        THEN [NoResult(layers, wps) EXCEPT !.reports = <<ErrNoWallpaper>>]
        ELSE LET buf == bgs[found].wallpaper
             IN  [ layers |-> [layers EXCEPT ![i].current_workspace = workspace_name],
                   wallpapers |-> [wps EXCEPT ![buf].active_count = @ + 1],
                   requests |-> << Request("attach", self.output_name, buf),
                                   Request("damage_buffer", self.output_name, 0),
                                   Request("commit", self.output_name, 0) >>,
                   reports |-> <<>> ]

\* variant: an item for an unknown output is drawn on the first layer
HandleWorkspaceVisibleOnFirst(layers, wps, workspace) ==
    LET i == FirstIndex(layers, { l \in Range(layers) :
                                    l.output_name = workspace.output })
    IN  IF i # 0
        THEN DrawWorkspaceBg(layers, wps, i, workspace.workspace_name)
        ELSE IF layers # <<>>
        THEN DrawWorkspaceBg(layers, wps, 1, workspace.workspace_name)
        ELSE [NoResult(layers, wps) EXCEPT !.reports = <<ErrUnknownOutput>>]

\* the body of the loop of handle_sway_event, for one received item
HandleWorkspaceVisible(layers, wps, workspace) ==
    LET i == FirstIndex(layers, { l \in Range(layers) :
                                    l.output_name = workspace.output })
    IN  IF i # 0
        THEN DrawWorkspaceBg(layers, wps, i, workspace.workspace_name)
        ELSE [NoResult(layers, wps) EXCEPT !.reports = <<ErrUnknownOutput>>]

\* ------------------------------------------------------------- release
RECURSIVE AllBackgrounds(_)
\* the slots visited by `for bg_layer in ... { for bg in ... }`, in order
AllBackgrounds(layers) ==
    IF layers = <<>> THEN <<>>
    ELSE Head(layers).workspace_backgrounds \o AllBackgrounds(Tail(layers))

\* variant: a plain subtraction that is never None
UncheckedSub1(n) == [some |-> TRUE, value |-> n - 1]

\* usize::checked_sub(1): Some(n - 1), or None at zero
CheckedSub1(n) ==
    IF n >= 1 THEN [some |-> TRUE, value |-> n - 1]
    ELSE [some |-> FALSE, value |-> 0]

\* variant: a release at zero is dropped without a report
ReleaseAtSilent(wps, proxy) ==
    LET new_count == CheckedSub1(wps[proxy].active_count)
    IN  IF new_count.some
        THEN [wallpapers |-> [wps EXCEPT ![proxy].active_count = new_count.value],
              reports |-> <<>>]
        ELSE [wallpapers |-> wps, reports |-> <<>>]

\* what the release handler does at the first slot holding the buffer
ReleaseAt(wps, proxy) ==
    LET new_count == CheckedSub1(wps[proxy].active_count)
    IN  IF new_count.some
        THEN [wallpapers |-> [wps EXCEPT ![proxy].active_count = new_count.value],
              reports |-> <<>>]
        ELSE [wallpapers |-> wps, reports |-> <<ErrUnexpectedRelease>>]

RECURSIVE ReleaseEverySlot(_, _, _)
\* the release taken at every slot that holds the buffer, front to back
ReleaseEverySlot(acc, slots, proxy) ==
    IF slots = <<>> THEN acc
    ELSE IF Head(slots).wallpaper # proxy
    THEN ReleaseEverySlot(acc, Tail(slots), proxy)
    ELSE LET r == ReleaseAt(acc.wallpapers, proxy)
         IN  ReleaseEverySlot([acc EXCEPT !.wallpapers = r.wallpapers,
                                          !.reports = @ \o r.reports],
                              Tail(slots), proxy)

\* variant: the loops go on after the first slot holding the buffer
BufferReleaseEventPerSlot(layers, wps, proxy) ==
    LET slots == AllBackgrounds(layers)
        k == FirstIndex(slots, { bg \in Range(slots) : bg.wallpaper = proxy })
    IN  IF k # 0
        THEN ReleaseEverySlot(NoResult(layers, wps), slots, proxy)
        ELSE [NoResult(layers, wps) EXCEPT !.reports = <<WarnReleaseDestroyed>>]

\* Dispatch<WlBuffer, ()>::event: the release of wl_buffer `proxy`
BufferReleaseEvent(layers, wps, proxy) ==
    LET slots == AllBackgrounds(layers)
        k == FirstIndex(slots, { bg \in Range(slots) : bg.wallpaper = proxy })
    IN  IF k # 0
        THEN LET r == ReleaseAt(wps, proxy)
             IN  [NoResult(layers, r.wallpapers) EXCEPT !.reports = r.reports]
        ELSE [NoResult(layers, wps) EXCEPT !.reports = <<WarnReleaseDestroyed>>]

\* ------------------------------------------------------------- teardown
\* the arena slot of a Wallpaper that was dropped: its fields are gone
DestroyedWallpaper ==
    [canon_path |-> "", canon_modified |-> 0, active_count |-> 0, strong |-> 0,
     destroyed |-> TRUE, width |-> 0, height |-> 0]

\* variant: every dropped reference destroys the buffer
DropRcAlways(acc, buf) ==
    LET w == acc.wallpapers[buf]
    IN  [ wallpapers |-> [acc.wallpapers EXCEPT ![buf] = DestroyedWallpaper],
          requests |-> Append(acc.requests, Request("destroy", "", buf)),
          reports |-> IF w.active_count # 0
                      THEN Append(acc.reports, WarnDestroyingActive)
                      ELSE acc.reports ]

\* variant: a buffer that is still in use is kept until it is released
DropRcDeferred(acc, buf) ==
    LET w == acc.wallpapers[buf]
    IN  IF w.strong > 1
        THEN [acc EXCEPT !.wallpapers[buf].strong = w.strong - 1]
        ELSE IF w.active_count # 0
        THEN [acc EXCEPT !.wallpapers[buf].strong = 0]
        ELSE [ wallpapers |-> [acc.wallpapers EXCEPT ![buf] = DestroyedWallpaper],
               requests |-> Append(acc.requests, Request("destroy", "", buf)),
               reports |-> acc.reports ]

\* dropping one Rc<Wallpaper>; at strong count zero, Drop for Wallpaper
DropRc(acc, buf) ==
    LET w == acc.wallpapers[buf]
    IN  IF w.strong > 1
        THEN [acc EXCEPT !.wallpapers[buf].strong = w.strong - 1]
        ELSE [ wallpapers |-> [acc.wallpapers EXCEPT ![buf] = DestroyedWallpaper],
               requests |-> Append(acc.requests, Request("destroy", "", buf)),
               reports |-> IF w.active_count # 0
                           THEN Append(acc.reports, WarnDestroyingActive)
                           ELSE acc.reports ]

RECURSIVE DropBackgrounds(_, _)
\* dropping a Vec<WorkspaceBackground>, front to back
DropBackgrounds(acc, bgs) ==
    IF bgs = <<>> THEN acc
    ELSE DropBackgrounds(DropRc(acc, Head(bgs).wallpaper), Tail(bgs))

\* ------------------------------------------------------------- population
\* the (width, height) new_output derives from the current mode
TransformedSize(mode, transform) ==
    IF transform \in {"_90", "_270", "Flipped90", "Flipped270"}
    THEN <<mode[2], mode[1]>>
    ELSE mode

SameFile(w, wallpaper_file) ==
    /\ w.canon_modified = wallpaper_file.canon_modified
    /\ w.canon_path = wallpaper_file.canon_path

\* find_equal_output_wallpaper: the buffer to share, or 0 for None
FindEqualOutputWallpaper(workspace_backgrounds, wps, wallpaper_file) ==
    LET k == FirstIndex(workspace_backgrounds,
                        { bg \in Range(workspace_backgrounds) :
                            SameFile(wps[bg.wallpaper], wallpaper_file) })
    IN  IF k = 0 THEN 0 ELSE workspace_backgrounds[k].wallpaper

\* variant: the transform is not compared
LayerMatchesSize(bg_layer, width, height, transform) ==
    /\ bg_layer.width = width
    /\ bg_layer.height = height

\* the layer filter of find_equal_wallpaper
LayerMatches(bg_layer, width, height, transform) ==
    /\ bg_layer.width = width
    /\ bg_layer.height = height
    /\ bg_layer.transform = transform

\* variant: other outputs are never searched
FindEqualWallpaperNone(layers, wps, width, height, transform, wallpaper_file) == 0

\* find_equal_wallpaper: the buffer to share, or 0 for None
FindEqualWallpaper(layers, wps, width, height, transform, wallpaper_file) ==
    LET hit(bg_layer) ==
            /\ LayerMatches(bg_layer, width, height, transform)
            /\ FindEqualOutputWallpaper(bg_layer.workspace_backgrounds, wps,
                                        wallpaper_file) # 0
        k == FirstIndex(layers, { bg_layer \in Range(layers) : hit(bg_layer) })
    IN  IF k = 0 THEN 0
        ELSE FindEqualOutputWallpaper(layers[k].workspace_backgrounds, wps,
                                      wallpaper_file)

Background(ws, buf) == [workspace_name |-> ws, wallpaper |-> buf]

ShareWallpaper(acc, ws, buf) ==
    [acc EXCEPT !.workspace_backgrounds = Append(@, Background(ws, buf)),
                !.wallpapers[buf].strong = @ + 1,
                !.reused_count = @ + 1]

\* variant: a file that fails to load is counted and still gets its slot
PopulateFileKeepsFailed(acc, layers, width, height, transform, failing, wallpaper_file) ==
    LET same == FindEqualOutputWallpaper(acc.workspace_backgrounds,
                                         acc.wallpapers, wallpaper_file)
        other == FindEqualWallpaper(layers, acc.wallpapers, width, height,
                                    transform, wallpaper_file)
        buf == Len(acc.wallpapers) + 1
    IN  IF same # 0 THEN ShareWallpaper(acc, wallpaper_file.workspace, same)
        ELSE IF other # 0 THEN ShareWallpaper(acc, wallpaper_file.workspace, other)
        ELSE [acc EXCEPT
                !.workspace_backgrounds =
                    Append(@, Background(wallpaper_file.workspace, buf)),
                !.wallpapers =
                    Append(@, [canon_path |-> wallpaper_file.canon_path,
                               canon_modified |-> wallpaper_file.canon_modified,
                               active_count |-> 0,
                               strong |-> 1,
                               destroyed |-> FALSE,
                               width |-> width,
                               height |-> height]),
                !.error_count = @ + (IF wallpaper_file.canon_path \in failing
                                     THEN 1 ELSE 0),
                !.loaded_count = @ + 1]

\* one iteration of the `for wallpaper_file in wallpaper_files` loop
PopulateFile(acc, layers, width, height, transform, failing, wallpaper_file) ==
    LET same == FindEqualOutputWallpaper(acc.workspace_backgrounds,
                                         acc.wallpapers, wallpaper_file)
        other == FindEqualWallpaper(layers, acc.wallpapers, width, height,
                                    transform, wallpaper_file)
        buf == Len(acc.wallpapers) + 1
    IN  IF same # 0 THEN ShareWallpaper(acc, wallpaper_file.workspace, same)
        ELSE IF other # 0 THEN ShareWallpaper(acc, wallpaper_file.workspace, other)
        ELSE IF wallpaper_file.canon_path \in failing
        THEN [acc EXCEPT !.error_count = @ + 1]
        ELSE [acc EXCEPT
                !.workspace_backgrounds =
                    Append(@, Background(wallpaper_file.workspace, buf)),
                !.wallpapers =
                    Append(@, [canon_path |-> wallpaper_file.canon_path,
                               canon_modified |-> wallpaper_file.canon_modified,
                               active_count |-> 0,
                               strong |-> 1,
                               destroyed |-> FALSE,
                               width |-> width,
                               height |-> height]),
                !.loaded_count = @ + 1]

RECURSIVE Populate(_, _, _, _, _, _, _)
Populate(acc, layers, width, height, transform, failing, wallpaper_files) ==
    IF wallpaper_files = <<>> THEN acc
    ELSE Populate(PopulateFile(acc, layers, width, height, transform, failing,
                               Head(wallpaper_files)),
                  layers, width, height, transform, failing,
                  Tail(wallpaper_files))

\* ------------------------------------------------------------- channel
\* the sends of ConnectionTask::request_visible_workspace(output)
VisibleWorkspaceOf(answer, output) ==
    LET k == FirstIndex(answer, { w \in Range(answer) : w.output = output })
    IN  IF k = 0 THEN <<>> ELSE << answer[k] >>

\* `loop` while the handlers are taken in any order: run() is not followed;
\* ready, signal and wl are what poll reported for the waker, the signal
\* pipe and the display socket, order the sources handled since; wl and
\* order are forgotten when the turn ends
LoopOff ==
    [pc |-> "off", ready |-> FALSE, sent |-> <<>>, handled |-> <<>>,
     at_read |-> 0, in_pass |-> 0, reads |-> 0, wakes |-> 0, signal |-> FALSE,
     flushed |-> FALSE, stalls |-> 0, fault |-> "none", queries |-> 0,
     trace |-> FALSE, wl |-> FALSE, order |-> <<>>]

\* wl and order are kept when trace is set
Traced(l, wl, order) ==
    IF l.trace THEN [l EXCEPT !.wl = wl, !.order = order] ELSE l

\* TERM_SIGNALS and OTHER_SIGNALS
TermSignals == {"SIGHUP", "SIGINT", "SIGTERM"}
OtherSignals == {"SIGUSR1", "SIGUSR2"}

\* `proc` once SignalPipe::new has returned: both handlers installed, the
\* self-pipe empty, nothing delivered yet
ProcStarted ==
    [status |-> "running",
     handlers |-> [signum \in TermSignals \cup OtherSignals |-> "handler"],
     pipe |-> <<>>,
     delivered |-> [signum \in TermSignals \cup OtherSignals |-> 0],
     logged |-> 0,
     exited_on |-> "None"]

\* the process has neither exited, nor panicked, nor been killed
Running == proc.status = "running"

\* `boot` once run() has entered the main loop with the default backend
BootDone ==
    [pc |-> "done", flag |-> "None", session |-> "unset", current |-> "unset",
     swaysock |-> FALSE, niri_socket |-> FALSE, compositor |-> "Sway",
     request |-> "Sway", subscription |-> "Sway", workspaces |-> <<>>]

\* `shm` once Shm::bind has returned and the formats were advertised:
\* pixel_format is None until its first use; pools lists the RawPool::new
\* calls whose buffer was created, when record is set
ShmBound ==
    [force_xrgb8888 |-> FALSE, formats |-> {"Argb8888", "Xrgb8888", "Bgr888"},
     pixel_format |-> "None", pools |-> <<>>, record |-> FALSE]

\* variant: the format is chosen anew at every use
PixelFormatRecomputed(s) ==
    IF ~s.force_xrgb8888 /\ "Bgr888" \in s.formats THEN "Bgr888"
    ELSE "Xrgb8888"

\* State::pixel_format: `*self.pixel_format.get_or_insert_with(|| ..)`
PixelFormat(s) ==
    IF s.pixel_format # "None" THEN s.pixel_format
    ELSE IF ~s.force_xrgb8888 /\ "Bgr888" \in s.formats THEN "Bgr888"
    ELSE "Xrgb8888"

\* `let stride = match pixel_format { .. }`, with usize::next_multiple_of
Stride(pixel_format, width) ==
    IF pixel_format = "Xrgb8888" THEN width * 4
    ELSE ((width * 3 + 3) \div 4) * 4

\* what new_output does to `shm`: pixel_format() fills the cache, `created`
\* pools of stride * height bytes get a buffer of that format
NewOutputShm(s, width, height, created) ==
    LET pixel_format == PixelFormat(s)
        stride == Stride(pixel_format, width)
        pool == [format |-> pixel_format, width |-> width, height |-> height,
                 stride |-> stride, shm_size |-> stride * height]
    IN  [s EXCEPT !.pixel_format = pixel_format,
                  !.pools = IF s.record
                            THEN @ \o [k \in 1..created |-> pool]
                            ELSE @]

\* `hypr` while Hyprland's subscribe_event_loop is not followed
HyprIdle ==
    [status |-> "off", panic |-> "", monitors |-> <<>>, input |-> <<>>,
     stream |-> <<>>, tags |-> <<>>, buf |-> <<>>, buf_len |-> 0,
     consumed |-> 0, active_monitor |-> "", sent |-> <<>>, events |-> 0]

\* a handler taken on its own: run()'s position, the process and the startup
\* state stay as they are
HandlerOnly == Running /\ UNCHANGED <<loop, proc, boot, shm, hypr>>

\* a step of the loop of run() or of the bridge thread
LoopOnly == Running /\ UNCHANGED <<proc, boot, shm, hypr>>

\* the mpsc channel is unbounded; each specification caps what it holds
QueueCap == IF loop.pc = "off" THEN MaxQueue ELSE MaxBurst

\* the cap of active_count; under SpecLoop the items sent already cap it
ActiveCap == IF loop.pc = "off" THEN MaxActive ELSE MaxSent

\* tx.send(..) then waker.wake(), once per item
SendAll(items) ==
    /\ Len(channel) + Len(items) <= QueueCap
    /\ channel' = channel \o items
    /\ wakePending' = (wakePending \/ items # <<>>)

\* ------------------------------------------------------------- records
\* how a draw_workspace_bg call ended
DrawOutcome(r) ==
    IF r.requests # <<>> THEN "attached"
    ELSE IF r.reports = <<DebugSkipDraw>> THEN "skipped"
    ELSE "refused"

\* the record of a handler run: the protocol requests it issued, its log
\* lines, whether it left the cache as it was, and prev: when this is a draw
\* that directly follows a draw of the same workspace name on the same
\* output, how that draw ended
\* detail: the wl_buffer of a release, the number of wl_buffers before a
\* new_output, the number of slots dropped by an output_destroyed;
\* input: what a new_output found on disk, the files and the failing paths;
\* was_current: the layer's current workspace before a draw;
\* was_active: the buffer's active_count before a release
Did(op, o, ws, detail, requests, reports) ==
    LET i == FirstIndex(background_layers,
                        { l \in Range(background_layers) : l.output_name = o })
    IN  [op |-> op, output |-> o, workspace |-> ws, detail |-> detail,
         requests |-> requests, reports |-> reports, input |-> <<>>,
         unchanged |-> (<<outputs', background_layers', wallpapers'>> = cacheVars),
         prev |-> IF op = "draw" /\ last.op = "draw" /\ last.output = o
                     /\ last.workspace = ws
                  THEN DrawOutcome(last) ELSE "none",
         was_current |-> IF op = "draw" /\ i # 0
                         THEN background_layers[i].current_workspace
                         ELSE NoWorkspace,
         was_active |-> IF op = "release" THEN wallpapers[detail].active_count
                        ELSE 0]

Started ==
    [op |-> "init", output |-> "", workspace |-> NoWorkspace, detail |-> 0,
     requests |-> <<>>, reports |-> <<>>, input |-> <<>>,
     unchanged |-> TRUE, prev |-> "none",
     was_current |-> NoWorkspace, was_active |-> 0]

\* the counters of `audit`, kept when audit.on, for the first wl_buffer
AuditOff == [on |-> FALSE, surplus |-> 0, anomalies |-> 0]
AuditOn == [on |-> TRUE, surplus |-> 0, anomalies |-> 0]
Audited(buf) == audit.on /\ buf = 1

AuditAttaches(a, requests) ==
    IF requests # <<>> /\ Audited(requests[1].buffer)
    THEN [a EXCEPT !.surplus = @ - 1]
    ELSE a

AuditRelease(a, proxy, reports) ==
    IF Audited(proxy)
    THEN [a EXCEPT !.surplus = @ + 1, !.anomalies = @ + Len(reports)]
    ELSE a

\* ------------------------------------------------------------- handlers
\* variant: an output whose directory cannot be read gets an empty layer
SkippedOutputGetsLayer(layers, wps, output_name, width, height, transform) ==
    [layers |-> Append(layers,
                       [output_name |-> output_name,
                        width |-> width,
                        height |-> height,
                        configured |-> FALSE,
                        workspace_backgrounds |-> <<>>,
                        current_workspace |-> NoWorkspace,
                        transform |-> transform,
                        viewport |-> FALSE]),
     wallpapers |-> wps,
     requests |-> << Request("commit", output_name, 0) >>,
     reports |-> <<ErrNoWallpaperDir>>]

\* new_output when output_wallpaper_files fails: logged, and the handler
\* returns with nothing pushed; its layer surface, committed, is dropped
SkippedOutput(layers, wps, output_name, width, height, transform) ==
    [layers |-> layers, wallpapers |-> wps,
     requests |-> << Request("commit", output_name, 0) >>,
     reports |-> <<ErrNoWallpaperDir>>]

\* variant: the layer is pushed as if its surface were configured already
FreshLayerConfigured(output_name, width, height, transform, workspace_backgrounds) ==
    [output_name |-> output_name,
     width |-> width,
     height |-> height,
     configured |-> TRUE,
     workspace_backgrounds |-> workspace_backgrounds,
     current_workspace |-> NoWorkspace,
     transform |-> transform,
     viewport |-> FALSE]

\* the BackgroundLayer that new_output pushes; the outputs bound here have
\* a logical size equal to their resolution, which needs no wp_viewport
FreshLayer(output_name, width, height, transform, workspace_backgrounds) ==
    [output_name |-> output_name,
     width |-> width,
     height |-> height,
     configured |-> FALSE,
     workspace_backgrounds |-> workspace_backgrounds,
     current_workspace |-> NoWorkspace,
     transform |-> transform,
     viewport |-> FALSE]

\* OutputHandler::new_output, from `let layer = ...` on
NewOutputResult(layers, wps, output_name, mode, transform, dir, failing) ==
    LET size == TransformedSize(mode, transform)
        width == size[1]
        height == size[2]
        acc == Populate([workspace_backgrounds |-> <<>>,
                         wallpapers |-> wps,
                         reused_count |-> 0, loaded_count |-> 0,
                         error_count |-> 0],
                        layers, width, height, transform, failing, dir.files)
    IN  IF ~dir.ok
        THEN SkippedOutput(layers, wps, output_name, width, height, transform)
        ELSE [layers |-> Append(layers,
                        FreshLayer(output_name, width, height, transform,
                                   acc.workspace_backgrounds)),
              wallpapers |-> acc.wallpapers,
              requests |-> << Request("commit", output_name, 0) >>,
              reports |-> [k \in 1..acc.error_count |-> ErrLoadFailed]]

\* the IPC request behind request_visible_workspace(s)
VisibleQuery(output) == Request("get_workspaces", output, 0)

\* variant: the slots are dropped first and the compositor asked last
OutputDestroyedResultQueryLast(layers, wps, i) ==
    LET dropped == DropBackgrounds([wallpapers |-> wps, requests |-> <<>>,
                                    reports |-> <<>>],
                                   layers[i].workspace_backgrounds)
    IN  [layers |-> SwapRemove(layers, i), wallpapers |-> dropped.wallpapers,
         requests |-> Append(dropped.requests, VisibleQuery("")),
         reports |-> dropped.reports]

\* OutputHandler::output_destroyed, for a name that has a layer at index i:
\* swap_remove, then request_visible_workspaces(), then drop(removed_bg_layer)
OutputDestroyedResult(layers, wps, i) ==
    LET dropped == DropBackgrounds([wallpapers |-> wps,
                                    requests |-> << VisibleQuery("") >>,
                                    reports |-> <<>>],
                                   layers[i].workspace_backgrounds)
    IN  [layers |-> SwapRemove(layers, i), wallpapers |-> dropped.wallpapers,
         requests |-> dropped.requests, reports |-> dropped.reports]

\* ------------------------------------------------------------- actions
\* OutputHandler::new_output
NewOutput(output_name, mode, transform, dir, failing) ==
    LET r == NewOutputResult(background_layers, wallpapers, output_name, mode,
                             transform, dir, failing)
    IN  /\ output_name \notin outputs
        /\ Len(r.wallpapers) <= MaxWallpapers
        /\ outputs' = outputs \cup {output_name}
        /\ background_layers' = r.layers
        /\ wallpapers' = r.wallpapers
        /\ UNCHANGED <<channel, wakePending, bridgePc, audit>>
        /\ last' = [Did("new_output", output_name, NoWorkspace, Len(wallpapers),
                        r.requests, r.reports)
                        EXCEPT !.input = <<dir.files, failing>>]
        /\ shm' = LET size == TransformedSize(mode, transform)
                  IN  NewOutputShm(shm, size[1], size[2],
                                   Len(r.wallpapers) - Len(wallpapers))
        /\ Running
        /\ UNCHANGED <<loop, proc, boot, hypr>>

\* variant: every configure event is taken as the first one
ConfigureAlwaysQueries(i, answer) ==
    LET bg_layer == background_layers[i]
    IN  /\ UNCHANGED <<outputs, wallpapers, bridgePc, audit>>
        /\ background_layers' =
                [background_layers EXCEPT ![i].configured = TRUE]
        /\ SendAll(VisibleWorkspaceOf(answer, bg_layer.output_name))
        /\ last' = Did("configure", bg_layer.output_name, NoWorkspace, 0,
                       << VisibleQuery(bg_layer.output_name) >>, <<>>)

\* LayerShellHandler::configure, for the layer surface of background_layers[i]
Configure(i, answer) ==
    LET bg_layer == background_layers[i]
    IN  /\ UNCHANGED <<outputs, wallpapers, bridgePc, audit>>
        /\ IF ~bg_layer.configured
           THEN /\ background_layers' =
                        [background_layers EXCEPT ![i].configured = TRUE]
                /\ SendAll(VisibleWorkspaceOf(answer, bg_layer.output_name))
           ELSE /\ answer = <<>>
                /\ UNCHANGED <<background_layers, channel, wakePending>>
        /\ last' = Did("configure", bg_layer.output_name, NoWorkspace, 0,
                       IF bg_layer.configured THEN <<>>
                       ELSE << VisibleQuery(bg_layer.output_name) >>,
                       <<>>)

\* a configure event for the layer surface of an output that new_output
\* skipped: the surface was dropped when new_output returned, the toolkit
\* has no LayerSurface to hand over and LayerShellHandler::configure is not
\* called
ConfigureSkipped(output_name) ==
    /\ output_name \in outputs
    /\ FirstIndex(background_layers,
                  { l \in Range(background_layers) :
                      l.output_name = output_name }) = 0
    /\ UNCHANGED <<outputs, background_layers, wallpapers, channel,
                   wakePending, bridgePc, audit>>
    /\ last' = Did("configure_skipped", output_name, NoWorkspace, 0, <<>>, <<>>)

\* OutputHandler::output_destroyed
OutputDestroyed(output_name, answer) ==
    LET i == FirstIndex(background_layers,
                        { l \in Range(background_layers) :
                            l.output_name = output_name })
        r == OutputDestroyedResult(background_layers, wallpapers, i)
    IN  /\ output_name \in outputs
        /\ outputs' = outputs \ {output_name}
        /\ UNCHANGED <<bridgePc, audit>>
        /\ IF i # 0
           THEN /\ background_layers' = r.layers
                /\ SendAll(answer)
                /\ wallpapers' = r.wallpapers
                /\ last' = Did("output_destroyed", output_name, NoWorkspace,
                               Len(background_layers[i].workspace_backgrounds),
                               r.requests, r.reports)
           ELSE /\ answer = <<>>
                /\ UNCHANGED <<background_layers, wallpapers, channel, wakePending>>
                /\ last' = Did("output_destroyed", output_name, NoWorkspace, 0,
                               <<>>, <<ErrUnknownDestroyed>>)

\* Dispatch<WlBuffer, ()>::event for any wl_buffer created so far
BufferRelease(proxy) ==
    LET r == BufferReleaseEvent(background_layers, wallpapers, proxy)
    IN  /\ Audited(proxy) /\ r.reports # <<>> => audit.anomalies < MaxAnomalies
        /\ wallpapers' = r.wallpapers
        /\ audit' = AuditRelease(audit, proxy, r.reports)
        /\ UNCHANGED <<outputs, background_layers, channel, wakePending, bridgePc>>
        /\ last' = Did("release", "", NoWorkspace, proxy, r.requests, r.reports)

\* EventSender::send on the bridge thread: tx.send(workspace) ...
BridgeEnqueue(o, ws) ==
    /\ bridgePc = "run"
    /\ Len(channel) < QueueCap
    /\ channel' = Append(channel, WorkspaceVisible(o, ws))
    /\ bridgePc' = "wake"
    /\ UNCHANGED <<outputs, background_layers, wallpapers, wakePending, audit, last>>

\* variant: the wake is signalled wherever the thread is, before the send too
BridgeWakeEarly ==
    /\ wakePending' = TRUE
    /\ UNCHANGED <<outputs, background_layers, wallpapers, channel, bridgePc,
                   audit, last>>

\* variant: the send is not followed by a wake
BridgeWakeSkipped ==
    /\ bridgePc = "wake"
    /\ bridgePc' = "run"
    /\ UNCHANGED <<outputs, background_layers, wallpapers, channel, wakePending,
                   audit, last>>

\* ... then waker.wake()
BridgeWake ==
    /\ bridgePc = "wake"
    /\ wakePending' = TRUE
    /\ bridgePc' = "run"
    /\ UNCHANGED <<outputs, background_layers, wallpapers, channel, audit, last>>

\* Waker::read
WakerRead ==
    /\ wakePending
    /\ wakePending' = FALSE
    /\ UNCHANGED <<outputs, background_layers, wallpapers, channel, bridgePc,
                   audit, last>>

\* handle_sway_event: one turn of `while let Ok(workspace) = rx.try_recv()`
RecvWorkspaceVisible ==
    LET workspace == Head(channel)
        r == HandleWorkspaceVisible(background_layers, wallpapers, workspace)
    IN  /\ channel # <<>>
        /\ \A b \in 1..Len(r.wallpapers) : r.wallpapers[b].active_count <= ActiveCap
        /\ channel' = Tail(channel)
        /\ background_layers' = r.layers
        /\ wallpapers' = r.wallpapers
        /\ audit' = AuditAttaches(audit, r.requests)
        /\ UNCHANGED <<outputs, wakePending, bridgePc>>
        /\ last' = Did("draw", workspace.output, workspace.workspace_name, 0,
                       r.requests, r.reports)

\* ------------------------------------------------------------- hotplug
\* outputs come and go; the bridge thread sends nothing of its own
InitEmpty ==
    /\ outputs = {}
    /\ background_layers = <<>>
    /\ wallpapers = <<>>
    /\ channel = <<>>
    /\ wakePending = FALSE
    /\ bridgePc = "run"
    /\ audit = AuditOff
    /\ last = Started
    /\ loop = LoopOff
    /\ proc = ProcStarted
    /\ boot = BootDone
    /\ shm = ShmBound
    /\ hypr = HyprIdle

\* here the compositor shows nothing, or workspace "1" on OUT1
HotplugAnswers ==
    { a \in VisibleAnswers :
        \A k \in 1..Len(a) : a[k] = WorkspaceVisible("OUT1", "1") }

NextHotplug ==
    \/ \E o \in OutputNames, mode \in OutputModes, t \in Transforms,
          load \in OutputLoads :
            NewOutput(o, mode, t, load.dir, load.failing)
    \/ \E i \in 1..Len(background_layers), answer \in HotplugAnswers :
            Configure(i, answer) /\ HandlerOnly
    \/ \E o \in OutputNames, answer \in HotplugAnswers :
            OutputDestroyed(o, answer) /\ HandlerOnly
    \/ \E proxy \in 1..Len(wallpapers) : BufferRelease(proxy) /\ HandlerOnly
    \/ RecvWorkspaceVisible /\ HandlerOnly

SpecHotplug == InitEmpty /\ [][NextHotplug]_vars

\* ------------------------------------------------------------- loading
\* outputs come and go with any directory result and any file failing to
\* load, at one transform; configure events arrive for skipped outputs too
NextLoad ==
    \/ \E o \in OutputNames, mode \in OutputModes,
          load \in LoadsWith(LoadFailingSets) :
            NewOutput(o, mode, "Normal", load.dir, load.failing)
    \/ \E i \in 1..Len(background_layers), answer \in HotplugAnswers :
            Configure(i, answer) /\ HandlerOnly
    \/ \E o \in OutputNames : ConfigureSkipped(o) /\ HandlerOnly
    \/ \E o \in OutputNames, answer \in HotplugAnswers :
            OutputDestroyed(o, answer) /\ HandlerOnly
    \/ RecvWorkspaceVisible /\ HandlerOnly

SpecLoad == InitEmpty /\ [][NextLoad]_vars

\* ------------------------------------------------------------- wl_shm
\* a wl_shm format event: the toolkit adds the format to Shm::formats()
ShmFormat(format) ==
    /\ format \notin shm.formats
    /\ shm' = [shm EXCEPT !.formats = @ \cup {format}]
    /\ UNCHANGED <<outputs, background_layers, wallpapers, channel,
                   wakePending, bridgePc, audit, last, loop, proc, boot, hypr>>

\* run() built State with any --pixelformat; the compositor advertised the
\* two formats every compositor has, and maybe Bgr888 already
InitShm ==
    /\ outputs = {}
    /\ background_layers = <<>>
    /\ wallpapers = <<>>
    /\ channel = <<>>
    /\ wakePending = FALSE
    /\ bridgePc = "run"
    /\ audit = AuditOff
    /\ last = Started
    /\ loop = LoopOff
    /\ proc = ProcStarted
    /\ boot = BootDone
    /\ \E force \in BOOLEAN, advertised \in SUBSET {"Bgr888"} :
            shm = [ShmBound EXCEPT
                        !.force_xrgb8888 = force,
                        !.formats = {"Argb8888", "Xrgb8888"} \cup advertised,
                        !.record = TRUE]
    /\ hypr = HyprIdle

\* outputs of any size come and go, each with one wallpaper file "a" that
\* loads; a format may be advertised at any time
NextShm ==
    \/ \E format \in {"Bgr888"} : ShmFormat(format)
    \/ \E o \in OutputNames, width \in 1..MaxWidth, height \in {1, 2} :
            NewOutput(o, <<width, height>>, "Normal",
                      [ok |-> TRUE, files |-> << WallpaperFile("1", "a", 1) >>],
                      {})
    \/ \E o \in OutputNames : OutputDestroyed(o, <<>>) /\ HandlerOnly

SpecShm == InitShm /\ [][NextShm]_vars

\* ------------------------------------------------------------- drawing
\* the outputs found by the initial roundtrip: new_output for OUT1, then for
\* OUT2, with these directory results
Setups ==
    { << [ok |-> TRUE, files |-> << WallpaperFile("1", "a", 1),
                                    WallpaperFile(DefaultKey, "b", 1) >>],
         [ok |-> TRUE, files |-> << WallpaperFile("1", "a", 1),
                                    WallpaperFile("2", "a", 1) >>] >>,
      << [ok |-> TRUE, files |-> << WallpaperFile("1", "a", 2) >>],
         DirErr >> }

AfterRoundtrip(setup) ==
    LET first == NewOutputResult(<<>>, <<>>, "OUT1", <<2, 1>>, "Normal",
                                 setup[1], {})
    IN  NewOutputResult(first.layers, first.wallpapers, "OUT2", <<2, 1>>,
                        "Normal", setup[2], {})

InitDrawing(on) ==
    /\ \E setup \in Setups :
        /\ background_layers = AfterRoundtrip(setup).layers
        /\ wallpapers = AfterRoundtrip(setup).wallpapers
    /\ outputs = OutputNames
    /\ channel = <<>>
    /\ wakePending = FALSE
    /\ bridgePc = "run"
    /\ audit = IF on THEN AuditOn ELSE AuditOff
    /\ last = Started
    /\ loop = LoopOff
    /\ proc = ProcStarted
    /\ boot = BootDone
    /\ shm = [ShmBound EXCEPT !.pixel_format = PixelFormat(ShmBound)]
    /\ hypr = HyprIdle

NextDrawing ==
    \/ \E i \in 1..Len(background_layers), answer \in VisibleAnswers :
            Configure(i, answer) /\ HandlerOnly
    \/ \E proxy \in 1..Len(wallpapers) : BufferRelease(proxy) /\ HandlerOnly
    \/ \E o \in OutputNames, ws \in WorkspaceNames :
            BridgeEnqueue(o, ws) /\ HandlerOnly
    \/ BridgeWake /\ HandlerOnly
    \/ WakerRead /\ HandlerOnly
    \/ RecvWorkspaceVisible /\ HandlerOnly

Spec == InitDrawing(FALSE) /\ [][NextDrawing]_vars

\* ------------------------------------------------------------- requests
\* a workspace as the compositor lists it; visible is niri's is_active,
\* focused its is_focused
Workspace(name, output, visible, focused) ==
    [name |-> name, output |-> output, visible |-> visible, focused |-> focused]

\* what a compositor can list: two workspaces, at most one visible on each
\* output, at most one focused and that one visible
CompositorWorkspaces ==
    { << Workspace("1", o1, v1, f1), Workspace("2", o2, v2, f2) >> :
        o1 \in OutputNames, o2 \in OutputNames,
        v1 \in BOOLEAN, v2 \in BOOLEAN, f1 \in BOOLEAN, f2 \in BOOLEAN }
    \cap { l \in Seq([name : {"1", "2"}, output : OutputNames,
                      visible : BOOLEAN, focused : BOOLEAN]) :
            /\ l[1].focused => l[1].visible /\ ~l[2].focused
            /\ l[2].focused => l[2].visible
            /\ l[1].output = l[2].output => ~(l[1].visible /\ l[2].visible) }

RECURSIVE AsVisible(_)
\* WorkspaceVisible { output: workspace.output, workspace_name: workspace.name }
AsVisible(listing) ==
    IF listing = <<>> THEN <<>>
    ELSE << WorkspaceVisible(Head(listing).output, Head(listing).name) >>
         \o AsVisible(Tail(listing))

\* what find() runs over in request_visible_workspace of SwayConnectionTask
\* (.filter(|w| w.visible)) and of NiriConnectionTask (.filter(|w| w.is_focused))
RequestFilter(backend, listing) ==
    IF backend = "Sway"
    THEN AsVisible(SelectSeq(listing, LAMBDA w : w.visible))
    ELSE AsVisible(SelectSeq(listing, LAMBDA w : w.focused))

\* the compositor shows or focuses other workspaces
CompositorChanges(listing) ==
    /\ listing # boot.workspaces
    /\ boot' = [boot EXCEPT !.workspaces = listing]
    /\ Running
    /\ UNCHANGED <<outputs, background_layers, wallpapers, channel,
                   wakePending, bridgePc, audit, last, loop, proc, shm, hypr>>

\* LayerShellHandler::configure, its request answered by the backend
\* selected from what the compositor lists now
ConfigureRequest(i) ==
    Configure(i, IF background_layers[i].configured THEN <<>>
                 ELSE RequestFilter(boot.request, boot.workspaces))

InitRequest ==
    /\ \E setup \in Setups :
        /\ background_layers = AfterRoundtrip(setup).layers
        /\ wallpapers = AfterRoundtrip(setup).wallpapers
    /\ outputs = OutputNames
    /\ channel = <<>>
    /\ wakePending = FALSE
    /\ bridgePc = "run"
    /\ audit = AuditOff
    /\ last = Started
    /\ loop = LoopOff
    /\ proc = ProcStarted
    /\ \E backend \in {"Sway", "Niri"}, listing \in CompositorWorkspaces :
            boot = [BootDone EXCEPT !.compositor = backend,
                                    !.request = backend,
                                    !.subscription = backend,
                                    !.workspaces = listing]
    /\ shm = [ShmBound EXCEPT !.pixel_format = PixelFormat(ShmBound)]
    /\ hypr = HyprIdle

NextRequest ==
    \/ \E i \in 1..Len(background_layers) : ConfigureRequest(i) /\ HandlerOnly
    \/ \E listing \in CompositorWorkspaces : CompositorChanges(listing)
    \/ WakerRead /\ HandlerOnly
    \/ RecvWorkspaceVisible /\ HandlerOnly

SpecRequest == InitRequest /\ [][NextRequest]_vars

\* ------------------------------------------------------------- output updates
\* what an updated output reports: its current mode, its transform, its
\* logical size and its integer scale factor. In turn: nothing has changed;
\* the output is turned upside down; its resolution doubles, at scale 2;
\* it is turned by 90 degrees, and scaled by a fraction
UpdateReports ==
    { << <<2, 1>>, "Normal", <<2, 1>>, 1 >>,
      << <<2, 1>>, "_180", <<2, 1>>, 1 >>,
      << <<4, 2>>, "Normal", <<2, 1>>, 2 >>,
      << <<2, 1>>, "_90", <<3, 3>>, 1 >> }

\* OutputHandler::update_output, from the transform match on
UpdateOutputResult(bg_layer, mode, transform, logical_size, scale) ==
    LET size == TransformedSize(mode, transform)
        width == size[1]
        height == size[2]
        o == bg_layer.output_name
        warn == IF bg_layer.width # width \/ bg_layer.height # height
                THEN <<WarnNotImplemented>> ELSE <<>>
    IN  IF width = logical_size[1] \/ height = logical_size[2]
        THEN [viewport |-> FALSE, reports |-> warn,
              requests |-> << Request("set_buffer_scale", o, 1) >>
                    \o (IF bg_layer.viewport
                        THEN << Request("viewport_destroy", o, 0) >> ELSE <<>>)
                    \o << Request("commit", o, 0) >>]
        ELSE IF width = logical_size[1] * scale
                /\ height = logical_size[2] * scale
        THEN [viewport |-> FALSE, reports |-> warn,
              requests |-> << Request("set_buffer_scale", o, scale) >>
                    \o (IF bg_layer.viewport
                        THEN << Request("viewport_destroy", o, 0) >> ELSE <<>>)
                    \o << Request("commit", o, 0) >>]
        ELSE [viewport |-> TRUE, reports |-> warn,
              requests |-> << Request("set_buffer_scale", o, 1) >>
                    \o (IF bg_layer.viewport
                        THEN <<>> ELSE << Request("get_viewport", o, 0) >>)
                    \o << Request("viewport_set_destination", o, 0),
                          Request("commit", o, 0) >>]

\* OutputHandler::update_output, for an output that reports a name, a
\* current mode and a logical size, both positive. input keeps what the
\* output reports now and detail whether that differs, in resolution or in
\* transform, from what new_output recorded
UpdateOutput(output_name, mode, transform, logical_size, scale) ==
    LET i == FirstIndex(background_layers,
                        { l \in Range(background_layers) :
                            l.output_name = output_name })
        bg_layer == background_layers[i]
        r == UpdateOutputResult(bg_layer, mode, transform, logical_size, scale)
    IN  /\ output_name \in outputs
        /\ UNCHANGED <<outputs, wallpapers, channel, wakePending, bridgePc,
                       audit>>
        /\ IF i = 0
           THEN /\ UNCHANGED background_layers
                /\ last' = Did("update_output", output_name, NoWorkspace, 0,
                               <<>>, <<ErrUpdatedNoLayer>>)
           ELSE /\ background_layers' =
                    [background_layers EXCEPT ![i].viewport = r.viewport]
                /\ last' = [Did("update_output", output_name, NoWorkspace,
                                IF \/ TransformedSize(mode, transform)
                                        # <<bg_layer.width, bg_layer.height>>
                                   \/ transform # bg_layer.transform
                                THEN 1 ELSE 0,
                                r.requests, r.reports)
                                EXCEPT !.input = <<mode, transform>>]

NextUpdate ==
    \/ \E i \in 1..Len(background_layers), answer \in VisibleAnswers :
            Configure(i, answer) /\ HandlerOnly
    \/ WakerRead /\ HandlerOnly
    \/ RecvWorkspaceVisible /\ HandlerOnly
    \/ \E o \in OutputNames, info \in UpdateReports :
            UpdateOutput(o, info[1], info[2], info[3], info[4]) /\ HandlerOnly

SpecUpdate == InitDrawing(FALSE) /\ [][NextUpdate]_vars

SpecAudit == InitDrawing(TRUE) /\ [][NextDrawing]_vars

\* ------------------------------------------------------------- IPC errors
\* the subscription connection fails: event_result.unwrap() panics on the
\* bridge thread, which ends there; nothing of the main thread is touched
BridgeFault ==
    /\ bridgePc = "run"
    /\ bridgePc' = "dead"
    /\ UNCHANGED <<outputs, background_layers, wallpapers, channel, wakePending,
                   audit, last>>

\* the main thread panics: the process ends
Panicked == [proc EXCEPT !.status = "panicked"]

\* LayerShellHandler::configure when the request connection fails:
\* configured is set, then request_visible_workspace unwraps the error
ConfigureIpcError(i) ==
    LET bg_layer == background_layers[i]
    IN  /\ Running
        /\ ~bg_layer.configured
        /\ background_layers' =
                [background_layers EXCEPT ![i].configured = TRUE]
        /\ proc' = Panicked
        /\ UNCHANGED <<outputs, wallpapers, channel, wakePending, bridgePc,
                       audit, loop, boot, shm, hypr>>
        /\ last' = Did("configure", bg_layer.output_name, NoWorkspace, 0,
                       << VisibleQuery(bg_layer.output_name) >>, <<>>)

\* OutputHandler::output_destroyed when the request connection fails: the
\* layer is removed, then request_visible_workspaces unwraps the error and
\* the unwinding drops the removed layer
OutputDestroyedIpcError(output_name) ==
    LET i == FirstIndex(background_layers,
                        { l \in Range(background_layers) :
                            l.output_name = output_name })
        r == OutputDestroyedResult(background_layers, wallpapers, i)
    IN  /\ Running
        /\ output_name \in outputs
        /\ i # 0
        /\ outputs' = outputs \ {output_name}
        /\ background_layers' = r.layers
        /\ wallpapers' = r.wallpapers
        /\ proc' = Panicked
        /\ last' = Did("output_destroyed", output_name, NoWorkspace,
                       Len(background_layers[i].workspace_backgrounds),
                       r.requests, r.reports)
        /\ UNCHANGED <<channel, wakePending, bridgePc, audit, loop, boot, shm, hypr>>

NextFault ==
    \/ NextDrawing
    \/ BridgeFault /\ HandlerOnly
    \/ \E i \in 1..Len(background_layers) : ConfigureIpcError(i)
    \/ \E o \in OutputNames : OutputDestroyedIpcError(o)

SpecFault == InitDrawing(FALSE) /\ [][NextFault]_vars

\* ------------------------------------------------------------- main loop
\* run(): each turn polls, then serves the display connection, then the
\* waker and the channel; the bridge thread sends at any time

\* variant: the receive loop ends without asking the channel
TryRecvErrAlways(ch) == TRUE

\* `while let Ok(workspace) = rx.try_recv()` ends: try_recv found nothing
TryRecvErr(ch) == ch = <<>>

\* variant: a flush that would block counts as done
FlushBlockingNoRetry(l, result) ==
    IF result = "Ok" THEN [l EXCEPT !.flushed = TRUE]
    ELSE IF result = "WouldBlock"
    THEN [l EXCEPT !.flushed = TRUE, !.stalls = @ + 1]
    ELSE l

\* flush_blocking, one turn of its loop on the result of event_queue.flush():
\* Ok returns; WouldBlock warns and waits for POLLOUT; else expect panics
FlushBlocking(l, result) ==
    IF result = "Ok" THEN [l EXCEPT !.flushed = TRUE]
    ELSE IF result = "WouldBlock"
    THEN [l EXCEPT !.pc = "flush_wait", !.stalls = @ + 1]
    ELSE l

\* event_queue.flush() returns `result`; fault keeps what was not Ok
LoopFlush(result) ==
    /\ Running
    /\ loop.pc = "poll"
    /\ ~loop.flushed
    /\ result = "WouldBlock" => loop.stalls < MaxStalls
    /\ loop' = [FlushBlocking(loop, result) EXCEPT
                    !.fault = IF result = "Ok" THEN "none"
                              ELSE "flush: " \o result]
    /\ proc' = IF result \in {"Ok", "WouldBlock"} THEN proc ELSE Panicked
    /\ UNCHANGED <<outputs, background_layers, wallpapers, channel, wakePending,
                   bridgePc, audit, last, boot, shm, hypr>>

\* `retry_on_intr(|| poll(&mut poll_fds, -1)).unwrap(); continue`: the
\* display socket is writable, the flush is tried again
LoopFlushWritable ==
    /\ loop.pc = "flush_wait"
    /\ loop' = [loop EXCEPT !.pc = "poll"]
    /\ UNCHANGED <<outputs, background_layers, wallpapers, channel, wakePending,
                   bridgePc, audit, last>>

\* variant: the signal pipe, when poll reported it, is looked at first
LoopPollSignalFirst(wl) ==
    /\ loop.pc = "poll"
    /\ wl \/ wakePending \/ proc.pipe # <<>>
    /\ loop' = Traced([loop EXCEPT
                            !.pc = IF proc.pipe # <<>> THEN "signal"
                                   ELSE IF wl THEN "wayland" ELSE "compositor",
                            !.ready = wakePending,
                            !.signal = (proc.pipe # <<>>),
                            !.flushed = FALSE, !.stalls = 0],
                       wl, <<>>)
    /\ UNCHANGED <<outputs, background_layers, wallpapers, channel, wakePending,
                   bridgePc, audit, last>>

\* one turn up to the return of poll.poll(): flush_blocking, where it is
\* not taken apart by LoopFlush, then ensure_prepare_read and the wait; wl
\* says whether the display connection is reported readable
LoopPoll(wl) ==
    /\ loop.pc = "poll"
    /\ wl \/ wakePending \/ proc.pipe # <<>>
    /\ loop' = Traced([loop EXCEPT
                            !.pc = IF wl THEN "wayland" ELSE "compositor",
                            !.ready = wakePending,
                            !.signal = (proc.pipe # <<>>),
                            !.flushed = FALSE, !.stalls = 0],
                       wl, <<>>)
    /\ UNCHANGED <<outputs, background_layers, wallpapers, channel, wakePending,
                   bridgePc, audit, last>>

\* handle_wayland_event: dispatch_pending runs the handler of a read event
LoopDispatch(proxy) ==
    /\ loop.pc = "wayland"
    /\ BufferRelease(proxy)
    /\ UNCHANGED loop

\* handle_wayland_event when read_guard.read() gives Err(WouldBlock), the
\* socket having nothing to read after all: expect panics
LoopReadWouldBlock ==
    /\ Running
    /\ loop.pc = "wayland"
    /\ loop' = [loop EXCEPT !.fault = "read: WouldBlock"]
    /\ proc' = Panicked
    /\ UNCHANGED <<outputs, background_layers, wallpapers, channel, wakePending,
                   bridgePc, audit, last, boot, shm, hypr>>

\* handle_wayland_event returns
LoopDispatched ==
    /\ loop.pc = "wayland"
    /\ loop' = Traced([loop EXCEPT !.pc = "compositor"],
                       loop.wl, Append(loop.order, "wayland"))
    /\ UNCHANGED <<outputs, background_layers, wallpapers, channel, wakePending,
                   bridgePc, audit, last>>

\* `if poll.ready(token_compositor) { waker.read(); ...`
LoopWakerRead ==
    /\ loop.pc = "compositor"
    /\ loop.ready
    /\ WakerRead
    /\ loop' = [loop EXCEPT !.pc = "drain", !.at_read = Len(loop.sent),
                            !.in_pass = 0, !.reads = @ + 1]

\* poll did not report the waker: on to the signal pipe if poll reported
\* it, else to the next turn
LoopNotReady ==
    /\ loop.pc = "compositor"
    /\ ~loop.ready
    /\ loop' = IF loop.signal THEN [loop EXCEPT !.pc = "signal"]
               ELSE Traced([loop EXCEPT !.pc = "poll"], FALSE, <<>>)
    /\ UNCHANGED <<outputs, background_layers, wallpapers, channel, wakePending,
                   bridgePc, audit, last>>

\* handle_sway_event: try_recv gave an item, its handling
LoopRecv ==
    /\ loop.pc = "drain"
    /\ RecvWorkspaceVisible
    /\ loop' = [loop EXCEPT !.handled = Append(@, Head(channel)),
                            !.in_pass = @ + 1]

\* handle_sway_event returns: on to the signal pipe if poll reported it,
\* else to the next turn
LoopDrained ==
    /\ loop.pc = "drain"
    /\ TryRecvErr(channel)
    /\ loop' = IF loop.signal
               THEN Traced([loop EXCEPT !.pc = "signal"],
                           loop.wl, Append(loop.order, "compositor"))
               ELSE Traced([loop EXCEPT !.pc = "poll"], FALSE, <<>>)
    /\ UNCHANGED <<outputs, background_layers, wallpapers, channel, wakePending,
                   bridgePc, audit, last>>

\* variant: no flag counts as a termination
AnyTerminationNone(flags) == "None"

\* SignalFlags::any_termination, on the signals whose bytes were read
AnyTermination(flags) ==
    IF "SIGTERM" \in flags THEN "TERM"
    ELSE IF "SIGINT" \in flags THEN "INT"
    ELSE IF "SIGHUP" \in flags THEN "HUP"
    ELSE "None"

\* `if poll.ready(token_signal)`: SignalPipe::read takes every byte of the
\* pipe; a termination flag makes run() return, which drops the SignalPipe
\* and resets the handlers; USR1 or USR2 alone is logged
LoopSignal ==
    LET signal_flags == Range(proc.pipe)
        signal == AnyTermination(signal_flags)
    IN  /\ Running
        /\ loop.pc = "signal"
        /\ IF signal # "None"
           THEN /\ proc' = [proc EXCEPT
                                !.status = "exited",
                                !.exited_on = signal,
                                !.pipe = <<>>,
                                !.handlers = [signum \in DOMAIN @ |-> "default"]]
                /\ loop' = Traced([loop EXCEPT !.pc = "returned"],
                                   loop.wl, Append(loop.order, "signal"))
           ELSE /\ proc' = [proc EXCEPT
                                !.pipe = <<>>,
                                !.logged = IF signal_flags \cap OtherSignals # {}
                                           THEN @ + 1 ELSE @]
                /\ loop' = Traced([loop EXCEPT !.pc = "poll"], FALSE, <<>>)
        /\ UNCHANGED <<outputs, background_layers, wallpapers, channel,
                       wakePending, bridgePc, audit, last, boot, shm, hypr>>

\* variant: the termination handlers are installed without SA_RESETHAND
TermFlagsNoReset == {"SA_RESTART"}

\* the sa_flags of the handlers of TERM_SIGNALS and of OTHER_SIGNALS
TermFlags == {"SA_RESTART", "SA_RESETHAND"}
OtherFlags == {"SA_RESTART"}

\* the signals delivered so far
Delivered(p) ==
    p.delivered["SIGHUP"] + p.delivered["SIGINT"] + p.delivered["SIGTERM"]
        + p.delivered["SIGUSR1"] + p.delivered["SIGUSR2"]

\* write(PIPE_FD, &byte, 1) returns 1: the non-blocking pipe has room
PipeHasRoom(p) == Len(p.pipe) < MaxPipe

\* the disposition of signum once its handler has been entered
Entered(flags) == IF "SA_RESETHAND" \in flags THEN "default" ELSE "handler"

\* a signal of TERM_SIGNALS reaches the process: the default action kills
\* it; handle_termination_signals, entered with the disposition reset,
\* writes its byte and, failing that, raises the signal again
DeliverTermination(signum) ==
    /\ Running
    /\ Delivered(proc) < MaxSignals
    /\ proc' =
        LET counted == [proc EXCEPT !.delivered[signum] = @ + 1]
        IN  IF proc.handlers[signum] = "default"
            THEN [counted EXCEPT !.status = "killed"]
            ELSE IF PipeHasRoom(proc)
            THEN [counted EXCEPT !.handlers[signum] = Entered(TermFlags),
                                 !.pipe = Append(@, signum)]
            ELSE [counted EXCEPT !.handlers[signum] = Entered(TermFlags),
                                 !.status = IF Entered(TermFlags) = "default"
                                            THEN "killed" ELSE @]
    /\ UNCHANGED <<outputs, background_layers, wallpapers, channel, wakePending,
                   bridgePc, audit, last, loop, boot, shm, hypr>>

\* a signal of OTHER_SIGNALS reaches the process: handle_other_signals
\* writes its byte, a failed write is ignored
DeliverOther(signum) ==
    /\ Running
    /\ Delivered(proc) < MaxSignals
    /\ proc' =
        LET counted == [proc EXCEPT !.delivered[signum] = @ + 1]
        IN  IF PipeHasRoom(proc)
            THEN [counted EXCEPT !.handlers[signum] = Entered(OtherFlags),
                                 !.pipe = Append(@, signum)]
            ELSE [counted EXCEPT !.handlers[signum] = Entered(OtherFlags)]
    /\ UNCHANGED <<outputs, background_layers, wallpapers, channel, wakePending,
                   bridgePc, audit, last, loop, boot, shm, hypr>>

\* EventSender::send on the bridge thread, logged
BridgeSend(o, ws) ==
    /\ Len(loop.sent) < MaxSent
    /\ BridgeEnqueue(o, ws)
    /\ loop' = [loop EXCEPT !.sent = Append(@, WorkspaceVisible(o, ws))]

\* waker.wake() on the bridge thread, counted
BridgeWoke ==
    /\ BridgeWake
    /\ loop' = [loop EXCEPT !.wakes = @ + 1]

\* the main loop is entered with every layer configured and nothing shown
Configured(layers) == [i \in 1..Len(layers) |-> [layers[i] EXCEPT !.configured = TRUE]]

InitLoopOf(setups) ==
    /\ \E setup \in setups :
        /\ background_layers = Configured(AfterRoundtrip(setup).layers)
        /\ wallpapers = AfterRoundtrip(setup).wallpapers
    /\ outputs = OutputNames
    /\ channel = <<>>
    /\ wakePending = FALSE
    /\ bridgePc = "run"
    /\ audit = AuditOff
    /\ last = Started
    /\ loop = [LoopOff EXCEPT !.pc = "poll"]
    /\ proc = ProcStarted
    /\ boot = BootDone
    /\ shm = [ShmBound EXCEPT !.pixel_format = PixelFormat(ShmBound)]
    /\ hypr = HyprIdle

InitLoop == InitLoopOf(Setups)

\* the setup with one wallpaper on one output, the other output skipped
OneLayerSetups == { setup \in Setups : ~setup[2].ok }

NextLoop ==
    \/ \E wl \in BOOLEAN : LoopPoll(wl) /\ LoopOnly
    \/ \E proxy \in 1..Len(wallpapers) : LoopDispatch(proxy) /\ LoopOnly
    \/ LoopDispatched /\ LoopOnly
    \/ LoopWakerRead /\ LoopOnly
    \/ LoopNotReady /\ LoopOnly
    \/ LoopRecv /\ LoopOnly
    \/ LoopDrained /\ LoopOnly
    \/ \E o \in OutputNames, ws \in WorkspaceNames : BridgeSend(o, ws) /\ LoopOnly
    \/ BridgeWoke /\ LoopOnly

SpecLoop == InitLoop /\ [][NextLoop]_vars

\* the turns of the loop with the outcomes of the flush and of the read of
\* the display socket: the wait is reached once flush_blocking has returned
NextIo ==
    \/ \E result \in {"Ok", "WouldBlock", "Other"} : LoopFlush(result)
    \/ LoopFlushWritable /\ LoopOnly
    \/ \E wl \in BOOLEAN : loop.flushed /\ LoopPoll(wl) /\ LoopOnly
    \/ \E proxy \in 1..Len(wallpapers) : LoopDispatch(proxy) /\ LoopOnly
    \/ LoopReadWouldBlock
    \/ LoopDispatched /\ LoopOnly
    \/ LoopWakerRead /\ LoopOnly
    \/ LoopNotReady /\ LoopOnly
    \/ LoopRecv /\ LoopOnly
    \/ LoopDrained /\ LoopOnly
    \/ \E o \in OutputNames, ws \in WorkspaceNames : BridgeSend(o, ws) /\ LoopOnly
    \/ BridgeWoke /\ LoopOnly

SpecIo == InitLoopOf(OneLayerSetups) /\ [][NextIo]_vars

\* ------------------------------------------------------------- startup
\* values of an environment variable: unset, or its bytes
Unset == "unset"
DesktopValues == {Unset, "", "sway", "swayfx", "Sway", "niri", "gnome"}
\* Option<Compositor>
CompositorOptions == {"None", "Sway", "Niri"}

\* <[u8]>::starts_with
StartsWith(bytes, prefix) ==
    /\ Len(bytes) >= Len(prefix)
    /\ SubSeq(bytes, 1, Len(prefix)) = prefix

\* Option::or_else
OrElse(option, other) == IF option # "None" THEN option ELSE other

\* Compositor::from_xdg_desktop_var, on the value of the variable
FromXdgDesktopVar(xdg_desktop) ==
    IF xdg_desktop = Unset THEN "None"
    ELSE IF StartsWith(xdg_desktop, "sway") THEN "Sway"
    ELSE IF StartsWith(xdg_desktop, "niri") THEN "Niri"
    ELSE "None"

\* Compositor::from_ipc_socket_var
FromIpcSocketVar(swaysock, niri_socket) ==
    IF swaysock THEN "Sway"
    ELSE IF niri_socket THEN "Niri"
    ELSE "None"

\* variant: the socket variables are asked before the desktop variables
FromEnvSocketFirst(b) ==
    OrElse(FromIpcSocketVar(b.swaysock, b.niri_socket),
           OrElse(FromXdgDesktopVar(b.session), FromXdgDesktopVar(b.current)))

\* Compositor::from_env, on the environment held by b
FromEnv(b) ==
    OrElse(FromXdgDesktopVar(b.session),
           OrElse(FromXdgDesktopVar(b.current),
                  FromIpcSocketVar(b.swaysock, b.niri_socket)))

\* `let compositor = cli.compositor.or_else(Compositor::from_env)
\*      .unwrap_or(Compositor::Sway)`
SelectCompositor ==
    /\ boot.pc = "start"
    /\ boot' = [boot EXCEPT
                    !.pc = "selected",
                    !.compositor =
                        LET chosen == OrElse(boot.flag, FromEnv(boot))
                        IN  IF chosen # "None" THEN chosen ELSE "Sway"]
    /\ UNCHANGED <<outputs, background_layers, wallpapers, channel, wakePending,
                   bridgePc, audit, last, loop, proc, shm, hypr>>

\* ConnectionTask::new(compositor, ..) for State
NewConnectionTask ==
    /\ boot.pc = "selected"
    /\ boot' = [boot EXCEPT !.pc = "connected", !.request = boot.compositor]
    /\ UNCHANGED <<outputs, background_layers, wallpapers, channel, wakePending,
                   bridgePc, audit, last, loop, proc, shm, hypr>>

\* ConnectionTask::spawn_subscribe_event_loop(compositor, ..)
SpawnSubscribeEventLoop ==
    /\ boot.pc = "connected"
    /\ boot' = [boot EXCEPT !.pc = "done", !.subscription = boot.compositor]
    /\ bridgePc' = "run"
    /\ UNCHANGED <<outputs, background_layers, wallpapers, channel, wakePending,
                   audit, last, loop, proc, shm, hypr>>

\* run() is entered with any flag and any environment
InitSelect ==
    /\ \E flag \in CompositorOptions, session \in DesktopValues,
          current \in DesktopValues, swaysock \in BOOLEAN,
          niri_socket \in BOOLEAN :
            boot = [pc |-> "start", flag |-> flag, session |-> session,
                    current |-> current, swaysock |-> swaysock,
                    niri_socket |-> niri_socket, compositor |-> "None",
                    request |-> "None", subscription |-> "None",
                    workspaces |-> <<>>]
    /\ outputs = {}
    /\ background_layers = <<>>
    /\ wallpapers = <<>>
    /\ channel = <<>>
    /\ wakePending = FALSE
    /\ bridgePc = "unspawned"
    /\ audit = AuditOff
    /\ last = Started
    /\ loop = LoopOff
    /\ proc = ProcStarted
    /\ shm = ShmBound
    /\ hypr = HyprIdle

NextSelect ==
    \/ SelectCompositor
    \/ NewConnectionTask
    \/ SpawnSubscribeEventLoop

SpecSelect == InitSelect /\ [][NextSelect]_vars

\* ------------------------------------------------------------- niri
\* replies of niri to Request::Workspaces: the listing, where workspace 2
\* may have no name, or an error
NiriWorkspace(id, name, output) == [id |-> id, name |-> name, output |-> output]
NiriReplies ==
    { [ok |-> TRUE, workspaces |-> << NiriWorkspace(1, "1", "OUT1"),
                                      NiriWorkspace(2, name, "OUT1") >>] :
        name \in {"2", "None"} }
    \cup { [ok |-> FALSE, workspaces |-> <<>>] }

\* NiriConnectionTask::query_workspace, on the reply to its request: the
\* (name, output) of the workspace with that id, None read as "", or a panic
QueryWorkspace(reply, id) ==
    LET k == FirstIndex(reply.workspaces,
                        { w \in Range(reply.workspaces) : w.id = id })
    IN  IF ~reply.ok
        THEN [panic |-> "niri workspace query failed",
              workspace_name |-> "", output |-> ""]
        ELSE IF k = 0
        THEN [panic |-> "unknown workspace id",
              workspace_name |-> "", output |-> ""]
        ELSE [panic |-> "",
              workspace_name |-> IF reply.workspaces[k].name = "None" THEN ""
                                 ELSE reply.workspaces[k].name,
              output |-> reply.workspaces[k].output]

\* subscribe_event_loop on Event::WorkspaceActivated { id, .. }: one
\* connect and Request::Workspaces round trip in query_workspace, counted,
\* then tx.send(..); a panic ends the bridge thread
NiriWorkspaceActivated(id, reply) ==
    LET found == QueryWorkspace(reply, id)
    IN  /\ bridgePc = "run"
        /\ Len(loop.sent) < MaxSent
        /\ IF found.panic # ""
           THEN /\ bridgePc' = "dead"
                /\ loop' = [loop EXCEPT !.queries = @ + 1]
                /\ UNCHANGED <<outputs, background_layers, wallpapers,
                               channel, wakePending, audit, last>>
           ELSE /\ BridgeEnqueue(found.output, found.workspace_name)
                /\ loop' = [loop EXCEPT
                                !.queries = @ + 1,
                                !.sent = Append(@,
                                    WorkspaceVisible(found.output,
                                                     found.workspace_name))]

\* the turns of the loop with niri's subscription on the bridge thread
NextNiri ==
    \/ \E id \in 1..3, reply \in NiriReplies :
            NiriWorkspaceActivated(id, reply) /\ LoopOnly
    \/ BridgeWoke /\ LoopOnly
    \/ \E wl \in BOOLEAN : LoopPoll(wl) /\ LoopOnly
    \/ LoopDispatched /\ LoopOnly
    \/ LoopWakerRead /\ LoopOnly
    \/ LoopNotReady /\ LoopOnly
    \/ LoopRecv /\ LoopOnly
    \/ LoopDrained /\ LoopOnly

\* the main loop is entered from the one-layer setup; what the bridge thread
\* runs is niri's subscribe_event_loop (`boot` is not consulted)
SpecNiri ==
    /\ InitLoopOf(OneLayerSetups)
    /\ [][NextNiri]_vars

\* ------------------------------------------------------------- hyprland
\* bytes are one-character strings; the event names the loop compares with
BytesWorkspace == <<"w", "o", "r", "k", "s", "p", "a", "c", "e">>
BytesFocusedmon == <<"f", "o", "c", "u", "s", "e", "d", "m", "o", "n">>
BytesMoveworkspace == <<"m", "o", "v", "e">> \o BytesWorkspace
BytesRenameworkspace == <<"r", "e", "n", "a", "m", "e">> \o BytesWorkspace

\* a record of socket2 as Hyprland writes it: name>>data\n
HyprRecord(name, data) == name \o <<">", ">">> \o data \o <<"\n">>

RECURSIVE FromUtf8(_)
\* String::from_utf8(bytes.to_vec()).unwrap(), on bytes that are ASCII
FromUtf8(bytes) ==
    IF bytes = <<>> THEN "" ELSE Head(bytes) \o FromUtf8(Tail(bytes))

\* a monitor of the reply to j/monitors
Monitor(name, active_workspace, focused) ==
    [name |-> name, active_workspace |-> active_workspace, focused |-> focused]

RECURSIVE LastFocused(_)
LastFocused(monitors) ==
    IF monitors = <<>> THEN ""
    ELSE IF monitors[Len(monitors)].focused THEN monitors[Len(monitors)].name
    ELSE LastFocused(SubSeq(monitors, 1, Len(monitors) - 1))

\* current_state(): the name of the focused monitor (of the last one, if
\* several say so; "" if none does) and every monitor's active workspace
CurrentState(monitors) ==
    [active_monitor |-> LastFocused(monitors),
     visible_workspaces |->
        [k \in 1..Len(monitors) |->
            WorkspaceVisible(monitors[k].name, monitors[k].active_workspace)]]

\* event_sender.send for each item; `from` keeps what caused the send
HyprSend(sent, items, from) ==
    sent \o [k \in 1..Len(items) |->
                [output |-> items[k].output,
                 workspace_name |-> items[k].workspace_name,
                 from |-> from]]

\* the branches on event_name, for one record: st holds the loop's locals
HandleHyprEvent(st, event_name, event_data, monitors) ==
    IF event_name = BytesWorkspace
    THEN [st EXCEPT !.sent =
            HyprSend(@, << WorkspaceVisible(st.active_monitor,
                                            FromUtf8(event_data)) >>,
                     "workspace")]
    ELSE IF event_name = BytesFocusedmon
    THEN LET comma_pos == FirstIndex(event_data, {","})
         IN  IF comma_pos = 0
             THEN [st EXCEPT !.panic = "unwrap on None: focusedmon without a comma"]
             ELSE [st EXCEPT !.active_monitor =
                        FromUtf8(SubSeq(event_data, 1, comma_pos - 1))]
    ELSE IF event_name \in {BytesMoveworkspace, BytesRenameworkspace}
    THEN LET current_state == CurrentState(monitors)
         IN  [st EXCEPT
                !.sent = HyprSend(@, current_state.visible_workspaces, "query"),
                !.active_monitor = current_state.active_monitor]
    ELSE st

RECURSIVE ParsePass(_, _)
\* the inner loop: records are taken from buf[parsed..filled] until one is
\* incomplete; indices here count from 1, gt and lf are positions in the
\* slice they are searched in (gt_pos + 1 and lf_pos + 1 of the code)
ParsePass(st, monitors) ==
    LET unparsed == SubSeq(st.buf, st.parsed + 1, Len(st.buf))
        gt == FirstIndex(unparsed, {">"})
        event_name == SubSeq(unparsed, 1, gt - 1)
        after_gt == SubSeq(unparsed, gt + 2, Len(unparsed))
        lf == FirstIndex(after_gt, {"\n"})
        event_data == SubSeq(after_gt, 1, lf - 1)
        handled == HandleHyprEvent([st EXCEPT !.parsed = @ + gt + 1 + lf],
                                   event_name, event_data, monitors)
    IN  IF gt = 0 THEN st
        ELSE IF gt + 1 > Len(unparsed)
        THEN [st EXCEPT !.panic = "range start index out of range for slice"]
        ELSE IF lf = 0 THEN st
        ELSE IF handled.panic # "" THEN handled
        ELSE ParsePass(handled, monitors)

\* variant: the buffer never grows
GrowNever(buf_len, filled) == buf_len

\* `if filled == buf.len() { buf.resize(buf.len() * 2, 0u8) }`
Grow(buf_len, filled) == IF filled = buf_len THEN buf_len * 2 ELSE buf_len

\* one turn of the outer loop: connection.read(&mut buf[filled..]) gives n
\* bytes (0 when the slice is empty or the socket was closed), the buffer
\* grows if full, the records are parsed, the tail is moved to the front
HyprRead(n) ==
    LET room == hypr.buf_len - Len(hypr.buf)
        filled == Len(hypr.buf) + n
        pass == ParsePass([buf |-> hypr.buf \o SubSeq(hypr.stream, 1, n),
                           parsed |-> 0,
                           active_monitor |-> hypr.active_monitor,
                           sent |-> hypr.sent,
                           panic |-> ""],
                          hypr.monitors)
    IN  /\ hypr.status = "run"
        /\ IF n = 0 THEN room = 0 \/ hypr.stream = <<>>
           ELSE n <= room /\ n <= Len(hypr.stream)
        /\ hypr' =
            IF n = 0
            THEN [hypr EXCEPT !.status = "panicked",
                              !.panic = "Hyperland events socket disconnected"]
            ELSE IF pass.panic # ""
            THEN [hypr EXCEPT !.status = "panicked",
                              !.panic = pass.panic,
                              !.stream = SubSeq(@, n + 1, Len(@)),
                              !.buf = pass.buf,
                              !.buf_len = Grow(@, filled),
                              !.sent = pass.sent]
            ELSE [hypr EXCEPT !.stream = SubSeq(@, n + 1, Len(@)),
                              !.buf = SubSeq(pass.buf, pass.parsed + 1,
                                             Len(pass.buf)),
                              !.buf_len = Grow(@, filled),
                              !.consumed = pass.parsed,
                              !.active_monitor = pass.active_monitor,
                              !.sent = pass.sent]
        /\ UNCHANGED <<outputs, background_layers, wallpapers, channel,
                       wakePending, bridgePc, audit, last, loop, proc, boot,
                       shm>>

\* the streams written to socket2 before the loop reads
HyprStreams ==
    { HyprRecord(BytesWorkspace, <<"1">>)
        \o HyprRecord(BytesFocusedmon, <<"O", "U", "T", "2", ",", "2">>)
        \o HyprRecord(BytesWorkspace, <<"3">>),
      HyprRecord(BytesMoveworkspace, <<"3", ",", "O", "U", "T", "2">>)
        \o HyprRecord(<<"s", "u", "b", "m", "a", "p">>, <<>>)
        \o HyprRecord(BytesWorkspace, <<"1">>) }

\* subscribe_event_loop up to `let mut parsed = 0usize`: the initial state
\* is sent, the buffer is empty
HyprSubscribed(monitors, stream) ==
    [status |-> "run", panic |-> "", monitors |-> monitors, input |-> stream,
     stream |-> stream, tags |-> <<>>, buf |-> <<>>, buf_len |-> HyprBufLen,
     consumed |-> 0,
     active_monitor |-> CurrentState(monitors).active_monitor,
     sent |-> HyprSend(<<>>, CurrentState(monitors).visible_workspaces,
                       "initial"),
     events |-> 0]

\* Hyprland with OUT1 focused has written one of the streams; it then
\* stays as it is
InitHypr ==
    /\ outputs = {}
    /\ background_layers = <<>>
    /\ wallpapers = <<>>
    /\ channel = <<>>
    /\ wakePending = FALSE
    /\ bridgePc = "run"
    /\ audit = AuditOff
    /\ last = Started
    /\ loop = LoopOff
    /\ proc = ProcStarted
    /\ boot = BootDone
    /\ shm = ShmBound
    /\ \E stream \in HyprStreams :
            hypr = HyprSubscribed(<< Monitor("OUT1", "1", TRUE),
                                     Monitor("OUT2", "2", FALSE) >>, stream)

NextHypr == \E n \in 0..(2 * HyprBufLen) : HyprRead(n)

\* names of the workspaces Hyprland has
HyprWorkspaces == {"1", "2", "3"}

\* String::as_bytes, on ASCII
AsBytes(string) == [k \in 1..Len(string) |-> SubSeq(string, k, k)]

\* Hyprland, running beside the loop, changes its state and writes the
\* event to socket2 (https://wiki.hyprland.org/IPC/): the focus goes to
\* monitor `arg`; or the focused monitor shows workspace `arg`; or the
\* focused monitor's workspace is moved to the other monitor, the two
\* trading what they show. tags keeps, for each workspace event, the
\* monitor that was focused when it was written
HyprlandEmits(kind, arg) ==
    LET f == CHOOSE k \in 1..Len(hypr.monitors) : hypr.monitors[k].focused
        o == CHOOSE k \in 1..Len(hypr.monitors) : k # f
        focused == hypr.monitors[f]
        other == hypr.monitors[o]
    IN  /\ hypr.status = "run"
        /\ hypr.events < MaxHyprEvents
        /\ CASE kind = "focusedmon" ->
                /\ arg = other.name
                /\ hypr' = [hypr EXCEPT
                        !.monitors = [@ EXCEPT ![f].focused = FALSE,
                                               ![o].focused = TRUE],
                        !.stream = @ \o HyprRecord(BytesFocusedmon,
                                        AsBytes(other.name) \o <<",">>
                                        \o AsBytes(other.active_workspace)),
                        !.events = @ + 1]
             [] kind = "workspace" ->
                /\ arg \in HyprWorkspaces
                        \ {focused.active_workspace, other.active_workspace}
                /\ hypr' = [hypr EXCEPT
                        !.monitors = [@ EXCEPT ![f].active_workspace = arg],
                        !.stream = @ \o HyprRecord(BytesWorkspace, AsBytes(arg)),
                        !.tags = Append(@, focused.name),
                        !.events = @ + 1]
             [] kind = "moveworkspace" ->
                /\ arg = other.name
                /\ hypr' = [hypr EXCEPT
                        !.monitors = [@ EXCEPT
                            ![f].active_workspace = other.active_workspace,
                            ![o].active_workspace = focused.active_workspace],
                        !.stream = @ \o HyprRecord(BytesMoveworkspace,
                                        AsBytes(focused.active_workspace)
                                        \o <<",">> \o AsBytes(other.name)),
                        !.events = @ + 1]
        /\ UNCHANGED <<outputs, background_layers, wallpapers, channel,
                       wakePending, bridgePc, audit, last, loop, proc, boot,
                       shm>>

\* the loop has subscribed to a Hyprland that shows "1" on OUT1, focused,
\* and "2" on OUT2, and has written nothing yet
InitHyprLive ==
    /\ outputs = {}
    /\ background_layers = <<>>
    /\ wallpapers = <<>>
    /\ channel = <<>>
    /\ wakePending = FALSE
    /\ bridgePc = "run"
    /\ audit = AuditOff
    /\ last = Started
    /\ loop = LoopOff
    /\ proc = ProcStarted
    /\ boot = BootDone
    /\ shm = ShmBound
    /\ hypr = HyprSubscribed(<< Monitor("OUT1", "1", TRUE),
                                Monitor("OUT2", "2", FALSE) >>, <<>>)

\* Hyprland writes events while the loop reads whatever has arrived, in
\* chunks of any size
NextHyprLive ==
    \/ \E kind \in {"focusedmon", "workspace", "moveworkspace"},
          arg \in OutputNames \cup HyprWorkspaces : HyprlandEmits(kind, arg)
    \/ \E n \in 0..(2 * HyprBufLen) : HyprRead(n)

SpecHyprLive == InitHyprLive /\ [][NextHyprLive]_vars

SpecHypr == InitHypr /\ [][NextHypr]_vars

\* ------------------------------------------------------------- signals
\* the turns of the loop with signals reaching the process at any time; the
\* bridge thread stays silent
NextSignal ==
    \/ \E wl \in BOOLEAN : LoopPoll(wl) /\ LoopOnly
    \/ LoopDispatched /\ LoopOnly
    \/ LoopNotReady /\ LoopOnly
    \/ LoopSignal
    \/ \E signum \in TermSignals : DeliverTermination(signum)
    \/ \E signum \in OtherSignals : DeliverOther(signum)

SpecSignal == InitLoop /\ [][NextSignal]_vars

\* the turns of the loop with display events, bridge sends for OUT1 and
\* SIGTERM all arriving at any time
NextExit ==
    \/ \E wl \in BOOLEAN : LoopPoll(wl) /\ LoopOnly
    \/ \E proxy \in 1..Len(wallpapers) : LoopDispatch(proxy) /\ LoopOnly
    \/ LoopDispatched /\ LoopOnly
    \/ LoopWakerRead /\ LoopOnly
    \/ LoopNotReady /\ LoopOnly
    \/ LoopRecv /\ LoopOnly
    \/ LoopDrained /\ LoopOnly
    \/ \E ws \in WorkspaceNames : BridgeSend("OUT1", ws) /\ LoopOnly
    \/ BridgeWoke /\ LoopOnly
    \/ LoopSignal
    \/ DeliverTermination("SIGTERM")

\* the main loop is entered from the one-layer setup, the sources handled
\* in each turn being kept
InitExit ==
    /\ \E setup \in OneLayerSetups :
        /\ background_layers = Configured(AfterRoundtrip(setup).layers)
        /\ wallpapers = AfterRoundtrip(setup).wallpapers
    /\ outputs = OutputNames
    /\ channel = <<>>
    /\ wakePending = FALSE
    /\ bridgePc = "run"
    /\ audit = AuditOff
    /\ last = Started
    /\ loop = [LoopOff EXCEPT !.pc = "poll", !.trace = TRUE]
    /\ proc = ProcStarted
    /\ boot = BootDone
    /\ shm = [ShmBound EXCEPT !.pixel_format = PixelFormat(ShmBound)]
    /\ hypr = HyprIdle

SpecExit == InitExit /\ [][NextExit]_vars

\* the main thread is scheduled: a step of the loop that stays possible is
\* taken; when signals arrive is up to the sender
FairSpecSignal ==
    /\ SpecSignal
    /\ WF_vars(\E wl \in BOOLEAN : LoopPoll(wl) /\ LoopOnly)
    /\ WF_vars(LoopDispatched /\ LoopOnly)
    /\ WF_vars(LoopNotReady /\ LoopOnly)
    /\ WF_vars(LoopSignal)

\* the main thread and the bridge thread are both scheduled: a step of
\* either that stays possible is taken; when the bridge sends is up to the
\* compositor
FairSpecLoop ==
    /\ InitLoopOf(OneLayerSetups)
    /\ [][NextLoop]_vars
    /\ WF_vars(\E wl \in BOOLEAN : LoopPoll(wl) /\ LoopOnly)
    /\ WF_vars(LoopDispatched /\ LoopOnly)
    /\ WF_vars(LoopWakerRead /\ LoopOnly)
    /\ WF_vars(LoopNotReady /\ LoopOnly)
    /\ WF_vars(LoopRecv /\ LoopOnly)
    /\ WF_vars(LoopDrained /\ LoopOnly)
    /\ WF_vars(BridgeWoke /\ LoopOnly)

\* ------------------------------------------------------------- properties
LayerIndex(o) ==
    FirstIndex(background_layers,
               { l \in Range(background_layers) : l.output_name = o })

\* the buffers of the attach requests among `requests`
Attached(requests) ==
    { requests[k].buffer : k \in { j \in 1..Len(requests) : requests[j].req = "attach" } }

\* the one attach, damage_buffer, commit of a draw that went through
IsOneAttach(requests) ==
    /\ Len(requests) = 3
    /\ requests[1].req = "attach"
    /\ requests[2].req = "damage_buffer"
    /\ requests[3].req = "commit"

\* the buffers of the slots of `layer` named `name`
SlotsNamed(layer, name) ==
    { layer.workspace_backgrounds[k].wallpaper :
        k \in { j \in 1..Len(layer.workspace_backgrounds) :
                  layer.workspace_backgrounds[j].workspace_name = name } }

\* the last handler was a draw on a layer that exists
DrewOnLayer == last.op = "draw" /\ LayerIndex(last.output) # 0

LastLayer == background_layers[LayerIndex(last.output)]

\* this step is one turn of the receive loop of handle_sway_event
IsDrawStep == channel # <<>> /\ channel' = Tail(channel)

\* C1, per state: a draw of the name that is already the layer's current
\* workspace issues no request at all and leaves the layers and every
\* active_count as they were; a draw that goes through issues exactly one
\* attach, one damage_buffer and one commit and makes the name current.
C1_SecondDrawState ==
    DrewOnLayer /\ LastLayer.configured =>
        /\ last.was_current = last.workspace =>
                /\ last.requests = <<>>
                /\ last.reports = <<DebugSkipDraw>>
                /\ last.unchanged
        /\ last.requests # <<>> =>
                /\ IsOneAttach(last.requests)
                /\ LastLayer.current_workspace = last.workspace
        /\ last.prev \in {"attached", "skipped"} =>
                /\ last.requests = <<>>
                /\ last.unchanged
                /\ LastLayer.current_workspace = last.workspace

\* C1, per step: only a draw on an output changes that output's current
\* workspace, so the name set by the first of two draws is still current at
\* the second, whatever releases, configures or draws on other outputs come
\* in between.
C1_SecondDrawStep ==
    \A i \in 1..Len(background_layers) :
        ~(IsDrawStep /\ Head(channel).output = background_layers[i].output_name) =>
            /\ Len(background_layers') >= i
            /\ background_layers'[i].current_workspace =
                    background_layers[i].current_workspace

\* C1: two consecutive draws of one resolvable name on a configured output
\* make exactly one attach/commit; the second issues no attach, no damage
\* and no commit and changes neither the current workspace nor any count.
C1_DrawTwiceAttachesOnce == [](C1_SecondDrawState) /\ [][C1_SecondDrawStep]_vars

\* a draw that went through, directly followed by a draw of the same name on
\* the same output, which did nothing
C1_Witness ==
    /\ DrewOnLayer
    /\ last.prev = "attached"
    /\ last.requests = <<>>
    /\ last.was_current = last.workspace

\* C2: attach requests go only to configured layers; a draw on a layer that
\* is not configured reports one error, issues no request and changes
\* nothing.
C2_AttachOnlyWhenConfigured ==
    /\ \A k \in 1..Len(last.requests) :
            last.requests[k].req = "attach" =>
                /\ LayerIndex(last.requests[k].output) # 0
                /\ background_layers[LayerIndex(last.requests[k].output)].configured
    /\ DrewOnLayer /\ ~LastLayer.configured =>
            /\ last.requests = <<>>
            /\ last.reports = <<ErrNotConfigured>>
            /\ last.unchanged

C2_Witness ==
    /\ DrewOnLayer
    /\ ~LastLayer.configured
    /\ last.reports = <<ErrNotConfigured>>

\* C3: a draw on a configured layer of a name other than the current one
\* attaches the buffer stored under exactly that name if there is one, and
\* otherwise the buffer stored under _default if there is one.
C3_ExactThenDefault ==
    DrewOnLayer /\ LastLayer.configured /\ last.was_current # last.workspace =>
        LET exact == SlotsNamed(LastLayer, last.workspace)
            dflt == SlotsNamed(LastLayer, DefaultKey)
        IN  /\ exact # {} =>
                /\ IsOneAttach(last.requests)
                /\ Attached(last.requests) \subseteq exact
            /\ exact = {} /\ dflt # {} =>
                /\ IsOneAttach(last.requests)
                /\ Attached(last.requests) \subseteq dflt

\* a name without a slot of its own, on a layer that has slots for other
\* names, got the _default buffer
C3_Witness ==
    /\ DrewOnLayer
    /\ SlotsNamed(LastLayer, last.workspace) = {}
    /\ Len(LastLayer.workspace_backgrounds) >= 2
    /\ IsOneAttach(last.requests)
    /\ Attached(last.requests) \subseteq SlotsNamed(LastLayer, DefaultKey)

\* C4: a draw on a configured layer of a name with no slot of its own, when
\* the layer has no _default slot either, reports one error, issues no
\* request and leaves the current workspace and every count as they were.
C4_NoWallpaperKeepsAttachment ==
    /\ DrewOnLayer
    /\ LastLayer.configured
    /\ SlotsNamed(LastLayer, last.workspace) = {}
    /\ SlotsNamed(LastLayer, DefaultKey) = {}
    =>  /\ last.requests = <<>>
        /\ last.reports = <<ErrNoWallpaper>>
        /\ last.unchanged
        /\ LastLayer.current_workspace = last.was_current

\* the refused draw came while another workspace's buffer was attached
C4_Witness ==
    /\ DrewOnLayer
    /\ LastLayer.configured
    /\ last.reports = <<ErrNoWallpaper>>
    /\ LastLayer.current_workspace \notin {NoWorkspace, last.workspace}

\* C5: no active_count is ever negative; a release that finds the count at
\* zero leaves it at zero and changes nothing else.
C5_ActiveCountNeverNegative ==
    /\ \A b \in 1..Len(wallpapers) : wallpapers[b].active_count >= 0
    /\ last.op = "release" /\ last.was_active = 0 =>
            /\ wallpapers[last.detail].active_count = 0
            /\ last.requests = <<>>
            /\ last.unchanged

\* a release at zero, after the buffer had been attached and released before
C5_Witness ==
    /\ last.op = "release"
    /\ last.was_active = 0
    /\ last.reports = <<ErrUnexpectedRelease>>
    /\ \E i \in 1..Len(background_layers) :
            /\ background_layers[i].current_workspace # NoWorkspace
            /\ last.detail \in SlotsNamed(background_layers[i],
                                          background_layers[i].current_workspace)

\* C6 as stated: once a buffer has had more releases than attaches, its
\* active_count is zero and there has been exactly one anomaly report.
C6_OneReportForAllExcess ==
    audit.on /\ audit.surplus > 0 =>
        /\ wallpapers[1].active_count = 0
        /\ audit.anomalies = 1

\* C6: every release that finds the count at zero leaves it at zero and makes
\* exactly one anomaly report of its own, so the reports made for a buffer
\* number its releases minus its attaches plus its active_count: at least one
\* per release in excess, and exactly that many when the count is zero.
C6_OneReportPerExcessRelease ==
    /\ last.op = "release" /\ last.was_active = 0
       /\ (\E k \in 1..Len(AllBackgrounds(background_layers)) :
                AllBackgrounds(background_layers)[k].wallpaper = last.detail) =>
            /\ last.reports = <<ErrUnexpectedRelease>>
            /\ wallpapers[last.detail].active_count = 0
    /\ last.op = "release" /\ last.was_active > 0 => last.reports = <<>>
    /\ audit.on =>
            /\ audit.anomalies = wallpapers[1].active_count + audit.surplus
            /\ audit.surplus > 0 => audit.anomalies >= audit.surplus

\* two releases more than attaches, each of them reported
C6_Witness ==
    /\ audit.on
    /\ audit.surplus = 2
    /\ audit.anomalies = 2
    /\ wallpapers[1].active_count = 0
    /\ last.op = "release"

\* the slots, over all live layers, that hold buffer b
Holders(b) ==
    { <<i, k>> \in (1..Len(background_layers)) \X (1..MaxWallpapers + 2) :
        /\ k <= Len(background_layers[i].workspace_backgrounds)
        /\ background_layers[i].workspace_backgrounds[k].wallpaper = b }

IsLive(b) == b \in 1..Len(wallpapers) /\ ~wallpapers[b].destroyed

SameImage(b, c) ==
    /\ wallpapers[b].canon_path = wallpapers[c].canon_path
    /\ wallpapers[b].canon_modified = wallpapers[c].canon_modified

SameGeometry(l, m) ==
    /\ l.width = m.width
    /\ l.height = m.height
    /\ l.transform = m.transform

\* the last handler was a new_output that pushed a layer (the last one)
PushedLayer == last.op = "new_output" /\ last.reports # <<ErrNoWallpaperDir>>

NewLayer == background_layers[Len(background_layers)]

\* the buffers held by the layers that were live before the last new_output
\* and have the new layer's width, height and transform
HeldByEqualLayers ==
    UNION { SlotsOf : SlotsOf \in
              { { background_layers[i].workspace_backgrounds[k].wallpaper :
                    k \in 1..Len(background_layers[i].workspace_backgrounds) } :
                i \in { j \in 1..(Len(background_layers) - 1) :
                          SameGeometry(background_layers[j], NewLayer) } } }

\* C7: in the layer a new_output has pushed, a slot whose file equals, in
\* path and modification time, a buffer held by a layer of equal width,
\* height and transform, or the buffer of an earlier slot of the new layer,
\* holds that buffer and no new one; every buffer made by the call is held by
\* the new layer, and each binding counted once in the sharing count.
C7_EqualFileBindsExisting ==
    PushedLayer =>
        LET slots == NewLayer.workspace_backgrounds
        IN  /\ \A k \in 1..Len(slots) :
                /\ (\E e \in HeldByEqualLayers : SameImage(e, slots[k].wallpaper))
                        => slots[k].wallpaper <= last.detail
                /\ \A j \in 1..(k - 1) :
                        SameImage(slots[j].wallpaper, slots[k].wallpaper)
                            => slots[j].wallpaper = slots[k].wallpaper
            /\ \A b \in (last.detail + 1)..Len(wallpapers) :
                    \E k \in 1..Len(slots) : slots[k].wallpaper = b
            /\ \A k \in 1..Len(slots) :
                    wallpapers[slots[k].wallpaper].strong =
                        Cardinality(Holders(slots[k].wallpaper))

\* a new layer bound to a buffer another output had built, in two slots
C7_Witness ==
    /\ PushedLayer
    /\ Len(background_layers) = 2
    /\ Len(wallpapers) = last.detail
    /\ \E b \in 1..last.detail :
            /\ wallpapers[b].strong >= 3
            /\ Cardinality({ h \in Holders(b) : h[1] = 2 }) = 2

\* C8: a buffer is destroyed exactly when no slot of any live layer holds
\* it, its sharing count is the number of slots holding it, and a destroy
\* request is only ever sent for a buffer no slot holds.
C8_DestroyedWhenUnreferenced ==
    /\ \A b \in 1..Len(wallpapers) :
            /\ wallpapers[b].strong = Cardinality(Holders(b))
            /\ wallpapers[b].destroyed <=> Holders(b) = {}
    /\ \A k \in 1..Len(last.requests) :
            last.requests[k].req = "destroy" =>
                Holders(last.requests[k].buffer) = {}

\* an output with slots was destroyed and no buffer with it: the remaining
\* output holds them all
C8_Witness ==
    /\ last.op = "output_destroyed"
    /\ last.detail >= 1
    /\ \A k \in 1..Len(last.requests) : last.requests[k].req # "destroy"
    /\ Len(background_layers) = 1
    /\ \E b \in 1..Len(wallpapers) : IsLive(b) /\ Holders(b) # {}

\* C9: layers that hold the same buffer have the same width, height and
\* transform, and a buffer has the width and height of every layer holding it.
C9_SharedOnlyAtEqualGeometry ==
    \A i \in 1..Len(background_layers), j \in 1..Len(background_layers) :
        \A k \in 1..Len(background_layers[i].workspace_backgrounds) :
            LET b == background_layers[i].workspace_backgrounds[k].wallpaper
            IN  /\ wallpapers[b].width = background_layers[i].width
                /\ wallpapers[b].height = background_layers[i].height
                /\ (\E h \in Holders(b) : h[1] = j) =>
                        SameGeometry(background_layers[i], background_layers[j])

\* two outputs of equal size and different transform, each with a buffer
\* of its own for the same file
C9_Witness ==
    /\ Len(background_layers) = 2
    /\ background_layers[1].width = background_layers[2].width
    /\ background_layers[1].height = background_layers[2].height
    /\ background_layers[1].transform # background_layers[2].transform
    /\ \E h1 \in 1..Len(background_layers[1].workspace_backgrounds),
          h2 \in 1..Len(background_layers[2].workspace_backgrounds) :
            LET b == background_layers[1].workspace_backgrounds[h1].wallpaper
                c == background_layers[2].workspace_backgrounds[h2].wallpaper
            IN  b # c /\ SameImage(b, c)

\* C10: the items handled so far, followed by those still in the channel,
\* are the items sent, in the order sent; and once the pass that follows a
\* read of the waker has ended, every item that had been sent by the time of
\* that read has been handled, however few wakes there were.
C10_OneWakeDrainsAllInOrder ==
    /\ loop.handled \o channel = loop.sent
    /\ loop.pc # "drain" => Len(loop.handled) >= loop.at_read

\* two items were sent before the waker was read for the first and only
\* time, and that one pass handled both
C10_Witness ==
    /\ loop.pc = "poll"
    /\ loop.reads = 1
    /\ loop.at_read = 2
    /\ loop.in_pass = 2
    /\ loop.handled = loop.sent
    /\ loop.sent[1] # loop.sent[2]

C12_NoLostWake ==
    loop.pc # "off" /\ channel # <<>> =>
        wakePending \/ bridgePc = "wake" \/ loop.pc = "drain"

\* C12: the loop never waits on a non-empty channel without a wake pending
\* or coming; every item sent is either handled or still in the channel, in
\* the order sent; and a non-empty channel is emptied in the end, so every
\* item sent is handled in the end.
C12_NeverMissesData ==
    /\ [](C12_NoLostWake)
    /\ [](loop.pc # "off" => loop.handled \o channel = loop.sent)
    /\ (channel # <<>>) ~> (channel = <<>>)

\* an item was sent after the waker had been read, during the receive pass
C12_Witness ==
    /\ loop.pc = "drain"
    /\ Len(loop.sent) > loop.at_read
    /\ loop.reads >= 1
    /\ channel # <<>>
    /\ ~wakePending
    /\ bridgePc = "wake"

\* the positions of the requests of one kind among `requests`
Positions(requests, kind) ==
    { k \in 1..Len(requests) : requests[k].req = kind }

\* the last handler was output_destroyed for an output that had a layer
TornDown == last.op = "output_destroyed" /\ last.reports # <<ErrUnknownDestroyed>>

\* the number of slots of `layer` that hold buffer b
SlotsHolding(layer, b) ==
    Cardinality({ k \in 1..Len(layer.workspace_backgrounds) :
                    layer.workspace_backgrounds[k].wallpaper = b })

\* C13 as stated: the one re-query comes after the teardown, that is after
\* every buffer the teardown destroys has been destroyed.
C13_QueryAfterTeardown ==
    TornDown =>
        /\ Cardinality(Positions(last.requests, "get_workspaces")) = 1
        /\ \A q \in Positions(last.requests, "get_workspaces"),
              d \in Positions(last.requests, "destroy") : d < q

\* C13, the requests of a teardown: exactly one query, sent before any
\* buffer is destroyed, and nothing but the query and the destroys.
C13_TeardownState ==
    TornDown =>
        /\ LayerIndex(last.output) = 0
        /\ Positions(last.requests, "get_workspaces") = {1}
        /\ Positions(last.requests, "destroy") = 2..Len(last.requests)

\* C13, the step of a teardown: the layer of the destroyed output leaves
\* the list, every buffer loses one from its sharing count per slot of that
\* layer that held it, and the answer to the query is appended to the
\* channel with a wake.
C13_TeardownStep ==
    LET i == LayerIndex(last'.output)
        gone == background_layers[i]
        kept == { background_layers[j] : j \in 1..Len(background_layers) \ {i} }
    IN  (last'.op = "output_destroyed" /\ outputs' # outputs /\ i # 0) =>
            /\ Len(background_layers') = Len(background_layers) - 1
            /\ Range(background_layers') = kept
            /\ last'.detail = Len(gone.workspace_backgrounds)
            /\ Len(wallpapers') = Len(wallpapers)
            /\ \A b \in 1..Len(wallpapers) :
                    wallpapers'[b].strong =
                        wallpapers[b].strong - SlotsHolding(gone, b)
            /\ Len(channel') >= Len(channel)
            /\ SubSeq(channel', 1, Len(channel)) = channel
            /\ channel' # channel => wakePending'

\* C13 (amended): destroying an output that has a layer removes the layer,
\* issues exactly one full visibility query, then drops each slot of the
\* layer, taking one from the buffer's sharing count per slot; the pairs of
\* the answer are in the channel when the handler returns.
C13_TeardownThenRequery == [](C13_TeardownState) /\ [][C13_TeardownStep]_vars

\* an output was destroyed and a buffer with it, after the query; the pair
\* the compositor answered for the remaining output is in the channel
C13_Witness ==
    /\ TornDown
    /\ last.detail >= 1
    /\ Positions(last.requests, "destroy") # {}
    /\ Len(background_layers) = 1
    /\ channel # <<>>
    /\ channel[Len(channel)].output = background_layers[1].output_name
    /\ wakePending

\* the layers of output o
LayersOf(o) ==
    { i \in 1..Len(background_layers) : background_layers[i].output_name = o }

\* the last handler was a new_output that found no readable directory
SkippedLast == last.op = "new_output" /\ last.reports = <<ErrNoWallpaperDir>>

\* C14 as stated: one layer for every live output, none for any other.
C14_ExactlyOneLayerPerLiveOutput ==
    \A o \in OutputNames :
        Cardinality(LayersOf(o)) = IF o \in outputs THEN 1 ELSE 0

\* C14, the state: no output has two layers, an output that is not live
\* has none, a new_output that read its directory has pushed one and a
\* new_output that could not read it has pushed none.
C14_LayerState ==
    /\ \A o \in OutputNames :
            Cardinality(LayersOf(o)) <= IF o \in outputs THEN 1 ELSE 0
    /\ PushedLayer => Cardinality(LayersOf(last.output)) = 1
    /\ SkippedLast => LayersOf(last.output) = {}

\* C14, the step: while an output stays live it neither gains nor loses
\* its layer.
C14_LayerStep ==
    \A o \in outputs \cap outputs' : (LayersOf(o) = {}) <=> (LayersOf(o)' = {})

\* C14 (amended): at most one layer per live output, none for a destroyed
\* one; a live output has its layer from the new_output that read its
\* wallpaper directory until it is destroyed, and has none if that
\* new_output skipped it.
C14_AtMostOneLayerPerLiveOutput == [](C14_LayerState) /\ [][C14_LayerStep]_vars

\* an output with a layer was destroyed while a skipped output stays live
\* without one
C14_Witness ==
    /\ TornDown
    /\ last.output \notin outputs
    /\ \E o \in outputs : LayersOf(o) = {}

\* the files found by the last new_output, and the paths failing to load
LastFiles == last.input[1]
LastFailing == last.input[2]

\* the positions in the listing of the files that have a slot in the new layer
Kept ==
    { k \in 1..Len(LastFiles) :
        \E j \in 1..Len(NewLayer.workspace_backgrounds) :
            NewLayer.workspace_backgrounds[j].workspace_name = LastFiles[k].workspace }

\* C15: a new_output that read its directory pushes its layer whatever
\* fails to load; the slots are the files that did not fail, in the order of
\* the listing; a file has no slot only if its path fails to load, a slot
\* whose path fails to load holds a buffer that was loaded before; and there
\* is one report per file without a slot.
C15_FailedFileSkipped ==
    PushedLayer =>
        LET slots == NewLayer.workspace_backgrounds
        IN  /\ NewLayer.output_name = last.output
            /\ Len(slots) = Cardinality(Kept)
            /\ \A j \in 1..Len(slots), k \in 1..Len(slots) :
                    j < k =>
                        \E a \in Kept, b \in Kept :
                            /\ a < b
                            /\ LastFiles[a].workspace = slots[j].workspace_name
                            /\ LastFiles[b].workspace = slots[k].workspace_name
            /\ \A k \in 1..Len(LastFiles) :
                    LastFiles[k].canon_path \notin LastFailing => k \in Kept
            /\ \A j \in 1..Len(slots) :
                    /\ wallpapers[slots[j].wallpaper].canon_path \in LastFailing
                            => slots[j].wallpaper <= last.detail
                    /\ \E k \in Kept :
                            /\ LastFiles[k].workspace = slots[j].workspace_name
                            /\ LastFiles[k].canon_path =
                                    wallpapers[slots[j].wallpaper].canon_path
            /\ Len(last.reports) = Len(LastFiles) - Cardinality(Kept)
            /\ \A r \in 1..Len(last.reports) : last.reports[r] = ErrLoadFailed

\* the first file of a listing failed to load and the file after it got its
\* slot, with a new buffer
C15_Witness ==
    /\ PushedLayer
    /\ Len(LastFiles) = 2
    /\ LastFiles[1].canon_path \in LastFailing
    /\ Kept = {2}
    /\ NewLayer.workspace_backgrounds[1].wallpaper > last.detail
    /\ last.reports = <<ErrLoadFailed>>

\* C16, the state: the process runs; a draw or a destruction naming a live
\* output without a layer is refused with a report and no request, and a
\* configure event for it does nothing.
C16_SkippedState ==
    /\ Running
    /\ SkippedLast => last.requests = << Request("commit", last.output, 0) >>
    /\ (last.op = "draw" /\ LayersOf(last.output) = {}) =>
            /\ last.reports = <<ErrUnknownOutput>>
            /\ last.requests = <<>>
            /\ last.unchanged
    /\ last.op = "configure_skipped" =>
            /\ last.reports = <<>>
            /\ last.requests = <<>>
            /\ last.unchanged

\* C16, the step: a new_output that cannot read its directory, and the
\* destruction of an output that has no layer, leave every layer, every
\* buffer and the channel as they were.
C16_SkippedStep ==
    (\/ last'.op = "new_output" /\ last'.reports = <<ErrNoWallpaperDir>>
     \/ /\ last'.op = "output_destroyed"
        /\ outputs' # outputs
        /\ LayersOf(last'.output) = {})
    =>  /\ background_layers' = background_layers
        /\ wallpapers' = wallpapers
        /\ channel' = channel
        /\ wakePending' = wakePending
        /\ Len(last'.reports) = 1
        /\ proc' = proc

C17_OnlyBridgeThreadDies == proc.status # "panicked"

\* a termination signal has reached the process
TerminationDelivered == \E signum \in TermSignals : proc.delivered[signum] >= 1

\* C18, the state: run() has returned exactly when a read of the pipe found
\* a termination flag.
C18_ReadState ==
    /\ proc.status = "exited" <=> proc.exited_on # "None"
    /\ proc.status = "exited" <=> loop.pc = "returned"
    /\ proc.logged <= Delivered(proc)

\* C18, the read of the pipe: a TERM, INT or HUP byte among those read makes
\* run() return, named after one of them; with USR1 and USR2 bytes only the
\* read is logged and the loop goes on to its next turn with the cache, the
\* channel and the handlers as they were.
C18_ReadStep ==
    LET flags == Range(proc.pipe)
    IN  (loop.pc = "signal" /\ loop'.pc # "signal") =>
            /\ flags # {}
            /\ proc'.pipe = <<>>
            /\ flags \cap TermSignals # {} =>
                    /\ proc'.status = "exited"
                    /\ \E signum \in flags \cap TermSignals :
                            proc'.exited_on = SubSeq(signum, 4, Len(signum))
            /\ flags \cap TermSignals = {} =>
                    /\ proc'.status = "running"
                    /\ loop'.pc = "poll"
                    /\ proc'.logged = proc.logged + 1
                    /\ proc'.handlers = proc.handlers
                    /\ <<outputs', background_layers', wallpapers'>> = cacheVars
                    /\ channel' = channel
                    /\ wakePending' = wakePending

\* C18 as stated: a termination flag read makes the loop exit, USR1 and
\* USR2 are only logged, and any delivered termination signal leads to the
\* graceful exit in the end.
C18_TerminationLeadsToExit ==
    /\ [](C18_ReadState)
    /\ [][C18_ReadStep]_vars
    /\ TerminationDelivered ~> (proc.status = "exited")

\* C18 (amended): as stated, except that a delivered termination signal
\* leads to the graceful exit or to the process being killed before the
\* loop gets there, by a repeat of the signal or by a failed pipe write.
C18_TerminationLeadsToExitOrKill ==
    /\ [](C18_ReadState)
    /\ [][C18_ReadStep]_vars
    /\ TerminationDelivered ~> (proc.status \in {"exited", "killed"})

\* the loop logged a reserved signal, ran on, and returned on a HUP read
C18_Witness ==
    /\ proc.status = "exited"
    /\ proc.exited_on = "HUP"
    /\ proc.logged >= 1
    /\ proc.delivered["SIGHUP"] = 1

\* the bytes of signum in the pipe
Written(signum) == { k \in 1..Len(proc.pipe) : proc.pipe[k] = signum }

\* C19, the state: until run() returns, a termination signal has its
\* handler exactly as long as it has not been delivered, and at most one
\* byte of it is in the pipe; the reserved signals keep their handler.
C19_HandlerState ==
    proc.status # "exited" =>
        /\ \A signum \in TermSignals :
                /\ proc.handlers[signum] =
                        IF proc.delivered[signum] = 0 THEN "handler" ELSE "default"
                /\ Cardinality(Written(signum)) <= 1
        /\ \A signum \in OtherSignals : proc.handlers[signum] = "handler"

\* C19, a delivery: the first delivery of a termination signal resets its
\* handler and writes its byte (or, the pipe being full, kills the process);
\* a repeated one writes nothing and kills the process; a reserved signal
\* never kills.
C19_DeliveryStep ==
    /\ \A signum \in TermSignals :
            proc'.delivered[signum] = proc.delivered[signum] + 1 =>
                IF proc.delivered[signum] = 0
                THEN /\ proc'.handlers[signum] = "default"
                     /\ \/ /\ proc'.pipe = Append(proc.pipe, signum)
                           /\ proc'.status = "running"
                        \/ /\ Len(proc.pipe) = MaxPipe
                           /\ proc'.pipe = proc.pipe
                           /\ proc'.status = "killed"
                ELSE /\ proc'.pipe = proc.pipe
                     /\ proc'.status = "killed"
    /\ \A signum \in OtherSignals :
            proc'.delivered[signum] = proc.delivered[signum] + 1 =>
                /\ proc'.handlers[signum] = "handler"
                /\ proc'.status = "running"
                /\ \/ proc'.pipe = Append(proc.pipe, signum)
                   \/ Len(proc.pipe) = MaxPipe /\ proc'.pipe = proc.pipe

\* C19: termination handlers are one-shot, the handlers of the reserved
\* signals stay installed.
C19_TerminationHandlersOneShot == [](C19_HandlerState) /\ [][C19_DeliveryStep]_vars

\* a termination signal came twice: its one byte is in the pipe and the
\* process was killed; a reserved signal came before and has its handler
C19_Witness ==
    /\ proc.status = "killed"
    /\ \E signum \in TermSignals :
            /\ proc.delivered[signum] = 2
            /\ Written(signum) # {}
    /\ \E signum \in OtherSignals :
            /\ proc.delivered[signum] = 1
            /\ proc.handlers[signum] = "handler"

\* what a desktop-session variable says: a backend, or nothing when it is
\* unset or its value is not recognized
Recognized(value) ==
    IF value \in {"sway", "swayfx"} THEN "Sway"
    ELSE IF value = "niri" THEN "Niri"
    ELSE "None"

\* the backend the precedence of C20 gives for the flag and environment
Precedence ==
    CASE boot.flag # "None" -> boot.flag
      [] boot.flag = "None" /\ Recognized(boot.session) # "None" ->
            Recognized(boot.session)
      [] boot.flag = "None" /\ Recognized(boot.session) = "None"
            /\ Recognized(boot.current) # "None" ->
            Recognized(boot.current)
      [] boot.flag = "None" /\ Recognized(boot.session) = "None"
            /\ Recognized(boot.current) = "None" /\ boot.swaysock -> "Sway"
      [] boot.flag = "None" /\ Recognized(boot.session) = "None"
            /\ Recognized(boot.current) = "None" /\ ~boot.swaysock
            /\ boot.niri_socket -> "Niri"
      [] OTHER -> "Sway"

\* C20, the state: once chosen, the backend is the one the precedence
\* gives; the request connection and the subscription thread have it.
C20_SelectedState ==
    /\ boot.pc = "start" => boot.compositor = "None"
    /\ boot.pc # "start" => boot.compositor = Precedence
    /\ boot.pc \in {"connected", "done"} => boot.request = boot.compositor
    /\ boot.pc = "done" => boot.subscription = boot.compositor

\* C20, the step: a backend once chosen, or handed to the connection or to
\* the thread, is not changed.
C20_SelectedStep ==
    /\ boot.compositor # "None" => boot'.compositor = boot.compositor
    /\ boot.request # "None" => boot'.request = boot.request
    /\ boot.subscription # "None" => boot'.subscription = boot.subscription

\* C20: the backend is chosen once, by the flag, else the session desktop
\* variable, else the current desktop variable (an unrecognized value being
\* passed over), else SWAYSOCK, else NIRI_SOCKET, else Sway; the request
\* connection and the subscription thread both use it.
C20_BackendByPrecedence == [](C20_SelectedState) /\ [][C20_SelectedStep]_vars

\* no flag, a session variable that is not recognized, a current variable
\* naming niri, and SWAYSOCK set: niri, for the connection and the thread
C20_Witness ==
    /\ boot.pc = "done"
    /\ boot.flag = "None"
    /\ boot.session = "gnome"
    /\ boot.current = "niri"
    /\ boot.swaysock
    /\ boot.compositor = "Niri"
    /\ boot.request = "Niri"
    /\ boot.subscription = "Niri"

\* C21, the state: every buffer created so far has the format State holds;
\* the override rules the packed format out, and the packed format is held
\* only when it was advertised.
C21_FormatState ==
    /\ \A k \in 1..Len(shm.pools) : shm.pools[k].format = shm.pixel_format
    /\ shm.pixel_format \in {"None", "Xrgb8888", "Bgr888"}
    /\ shm.pools # <<>> => shm.pixel_format # "None"
    /\ shm.pixel_format = "Bgr888" =>
            ~shm.force_xrgb8888 /\ "Bgr888" \in shm.formats

\* C21, the step: the format is chosen by the first new_output, from what is
\* advertised then and from the override, and is never chosen again.
C21_FormatStep ==
    /\ shm.pixel_format # "None" => shm'.pixel_format = shm.pixel_format
    /\ shm.pixel_format = "None" /\ shm'.pixel_format # "None" =>
            /\ last'.op = "new_output"
            /\ shm'.pixel_format = "Bgr888" <=>
                    (~shm.force_xrgb8888 /\ "Bgr888" \in shm.formats)
            /\ shm'.pixel_format = "Xrgb8888" <=>
                    (shm.force_xrgb8888 \/ "Bgr888" \notin shm.formats)
    /\ last'.op = "new_output" => shm'.pixel_format # "None"

\* C21: the pixel format is Bgr888 exactly when the compositor advertises it
\* at the first use and --pixelformat does not force the baseline, else
\* Xrgb8888; it is chosen once, and every buffer of every output has it.
C21_FormatChosenOnce == [](C21_FormatState) /\ [][C21_FormatStep]_vars

\* two buffers of the packed format, for outputs of different widths
C21_Witness ==
    /\ Len(shm.pools) = 2
    /\ shm.pixel_format = "Bgr888"
    /\ shm.pools[1].width # shm.pools[2].width
    /\ \A k \in 1..2 : shm.pools[k].format = "Bgr888"

\* C22: the stride of Xrgb8888 is 4 * width; the stride of Bgr888 is at least
\* 3 * width and a multiple of both 4 and 3; the pool holds stride * height
\* bytes.
C22_StrideAlignedToBoth ==
    \A k \in 1..Len(shm.pools) :
        LET pool == shm.pools[k]
        IN  /\ pool.width > 0
            /\ pool.shm_size = pool.stride * pool.height
            /\ pool.format = "Xrgb8888" => pool.stride = 4 * pool.width
            /\ pool.format = "Bgr888" =>
                    /\ pool.stride >= 3 * pool.width
                    /\ pool.stride % 4 = 0
                    /\ pool.stride % 3 = 0

\* C23: the channel grows only by a send of the bridge thread: every step
\* that enqueues is a step of EventSender::send, and no handler of the main
\* thread ran in it.
C23_BridgeSoleWriter ==
    [][Len(channel') > Len(channel) =>
            bridgePc = "run" /\ bridgePc' = "wake" /\ last' = last]_vars

\* C24: no handler of the main thread makes a request/response round trip
\* to the compositor: none of the requests a handler issued is the IPC query
\* get_workspaces.
C24_NoRoundTripOnMainThread ==
    \A k \in 1..Len(last.requests) : last.requests[k].req # "get_workspaces"

\* C25, the step of a configure event for the layer of last'.output: when
\* the layer was unconfigured it becomes configured, one query for that
\* output is issued and at most its answer is enqueued; when it was
\* configured nothing changes and nothing is issued.
C25_ConfigureStep ==
    (/\ last'.op = "configure"
     /\ bridgePc' = bridgePc
     /\ \/ last' # last
        \/ channel' # channel
        \/ background_layers' # background_layers) =>
        LET i == FirstIndex(background_layers,
                            { l \in Range(background_layers) :
                                l.output_name = last'.output })
        IN  /\ i # 0
            /\ UNCHANGED <<outputs, wallpapers>>
            /\ IF ~background_layers[i].configured
               THEN /\ background_layers' =
                            [background_layers EXCEPT ![i].configured = TRUE]
                    /\ last'.requests = << VisibleQuery(last'.output) >>
                    /\ \/ channel' = channel
                       \/ \E ws \in WorkspaceNames :
                            channel' = Append(channel,
                                    WorkspaceVisible(last'.output, ws))
               ELSE /\ last'.requests = <<>>
                    /\ UNCHANGED <<background_layers, channel, wakePending>>

\* C25: the first configure event of a layer surface makes its layer
\* configured and issues exactly one visibility query, for that output;
\* every later configure event of that surface changes nothing and issues
\* no request.
C25_FirstConfigureOnly == [][C25_ConfigureStep]_vars

\* a configure event was ignored: its layer was configured already, the
\* answer to the first one's query still waits in the channel
C25_Witness ==
    /\ last.op = "configure"
    /\ last.requests = <<>>
    /\ last.unchanged
    /\ \E i \in 1..Len(background_layers) :
        /\ background_layers[i].output_name = last.output
        /\ background_layers[i].configured
        /\ \E k \in 1..Len(channel) : channel[k].output = last.output

\* where the output named o stands: "Absent" while it has no layer (never
\* announced, skipped, or destroyed), else by the flag of its layer
Phase(o) ==
    IF LayersOf(o) = {} THEN "Absent"
    ELSE IF \A i \in LayersOf(o) : background_layers[i].configured
    THEN "Configured"
    ELSE "Unconfigured"

\* C26, the state: an unconfigured layer shows no workspace; only a live,
\* configured layer is attached to or is sent a configure event; a destroyed
\* output has no layer.
C26_PhaseState ==
    /\ \A i \in 1..Len(background_layers) :
            ~background_layers[i].configured =>
                background_layers[i].current_workspace = NoWorkspace
    /\ \A o \in OutputNames : o \notin outputs => Phase(o) = "Absent"
    /\ last.op = "draw" /\ last.requests # <<>> =>
            last.output \in outputs /\ Phase(last.output) = "Configured"
    /\ last.op = "configure" => Phase(last.output) = "Configured"
    /\ PushedLayer =>
            /\ Phase(last.output) = "Unconfigured"
            /\ NewLayer.output_name = last.output
            /\ NewLayer.current_workspace = NoWorkspace

\* C26, the step: a configured layer stays configured until its output is
\* destroyed, a layer leaves only when its output does, and a name without a
\* layer gets one, unconfigured, only by being announced anew.
C26_PhaseStep ==
    \A o \in OutputNames :
        /\ Phase(o) = "Configured" => Phase(o)' \in {"Configured", "Absent"}
        /\ Phase(o) # "Absent" /\ Phase(o)' = "Absent" =>
                o \in outputs /\ o \notin outputs'
        /\ Phase(o) = "Absent" /\ Phase(o)' # "Absent" =>
                /\ Phase(o)' = "Unconfigured"
                /\ o \notin outputs /\ o \in outputs'
                /\ last'.op = "new_output" /\ last'.output = o

\* C26: a layer is created unconfigured with no current workspace, a
\* configured layer never becomes unconfigured, and a destroyed output has
\* no layer to draw to or to configure; the same name announced again gets
\* a fresh unconfigured layer.
C26_ForwardOnly == [](C26_PhaseState) /\ [][C26_PhaseStep]_vars

\* an output was drawn to, destroyed with its buffer still attached, and
\* announced again: its new layer is unconfigured and shows nothing
C26_Witness ==
    /\ PushedLayer
    /\ Len(background_layers) = 1
    /\ ~NewLayer.configured
    /\ NewLayer.current_workspace = NoWorkspace
    /\ \E b \in 1..Len(wallpapers) : wallpapers[b].destroyed
    /\ \E k \in 1..Len(channel) : channel[k].output = last.output

\* C27: a read of the display socket that reports "would block" raises no
\* error and does not end the process.
C27_WouldBlockReadIsBenign ==
    loop.fault = "read: WouldBlock" => proc.status = "running"

\* C28, the state: the flush counts as done only when it succeeded; while it
\* would block the loop waits for the socket to be writable, the process
\* running; any other error has ended the process.
C28_FlushState ==
    /\ loop.flushed => loop.pc = "poll" /\ loop.fault = "none"
    /\ loop.pc = "flush_wait" =>
            ~loop.flushed /\ loop.fault = "flush: WouldBlock" /\ Running
    /\ loop.fault = "flush: WouldBlock" => Running /\ loop.stalls > 0
    /\ loop.fault = "flush: Other" => proc.status = "panicked"

\* C28, the step: poll.poll() is entered only after a flush that succeeded;
\* a flush that would block changes nothing of the program's state, and the
\* wait for writability is followed by the flush again.
C28_FlushStep ==
    /\ loop.pc = "poll" /\ loop'.pc \in {"wayland", "compositor"} =>
            loop.flushed /\ loop.fault = "none"
    /\ loop.pc = "flush_wait" => loop'.pc \in {"flush_wait", "poll"}
    /\ loop.pc = "poll" /\ loop'.pc = "flush_wait" =>
            UNCHANGED <<outputs, background_layers, wallpapers, channel,
                        wakePending, last, proc>>

\* C28: every wait of the loop follows a flush that succeeded; a flush that
\* would block is no error, the loop waits for the display socket to be
\* writable and flushes again; any other flush error ends the process.
C28_FlushBeforeWait == [](C28_FlushState) /\ [][C28_FlushStep]_vars

\* the flush succeeded at its third try, the loop is about to wait
C28_Witness ==
    /\ loop.pc = "poll"
    /\ loop.flushed
    /\ loop.stalls = 2
    /\ loop.fault = "none"
    /\ Running

\* the buffers a step destroys
DestroyedNow ==
    { b \in 1..Len(wallpapers) :
        ~wallpapers[b].destroyed /\ wallpapers'[b].destroyed }

\* C29, the state: a buffer is destroyed exactly when no slot shares it any
\* more, whatever its active count was; a release notification for a
\* destroyed buffer is reported and leaves the cache as it was.
C29_TeardownState ==
    /\ \A b \in 1..Len(wallpapers) :
            wallpapers[b].destroyed <=> wallpapers[b].strong = 0
    /\ last.op = "release" /\ wallpapers[last.detail].destroyed =>
            /\ last.reports = <<WarnReleaseDestroyed>>
            /\ last.requests = <<>>
            /\ last.unchanged

\* C29, the step: a buffer is destroyed by the handler that drops its last
\* slot, with a destroy request in that handler, and with one warning for
\* each destroyed buffer whose active count was not zero.
C29_TeardownStep ==
    /\ \A b \in DestroyedNow :
            /\ last'.op = "output_destroyed"
            /\ Cardinality({ k \in Positions(last'.requests, "destroy") :
                                last'.requests[k].buffer = b }) = 1
    /\ DestroyedNow # {} =>
            Cardinality({ k \in 1..Len(last'.reports) :
                            last'.reports[k] = WarnDestroyingActive })
                = Cardinality({ b \in DestroyedNow :
                                    wallpapers[b].active_count # 0 })

\* C29: a Wallpaper whose active count is not zero is destroyed all the
\* same, at once when its sharing count reaches zero, with a warning; a
\* release notification that arrives for it afterwards is reported and
\* changes nothing.
C29_TeardownNeverDeferred ==
    [](C29_TeardownState) /\ [][C29_TeardownStep]_vars

\* an output was destroyed while a buffer of its layer was attached: the
\* buffer is destroyed and the warning was given
C29_Witness ==
    /\ TornDown
    /\ \E k \in 1..Len(last.reports) : last.reports[k] = WarnDestroyingActive
    /\ \E k \in Positions(last.requests, "destroy") :
            wallpapers[last.requests[k].buffer].destroyed

\* C30: resolving a "workspace activated" event makes no request/response
\* round trip: a step in which the bridge thread sends what an activation
\* resolved to leaves the number of round trips as it was.
C30_ActivationResolvedFromCache ==
    [][Len(loop'.sent) > Len(loop.sent) => loop'.queries = loop.queries]_vars

\* what the loop sends when the whole input arrives in one read
SentInOneRead ==
    ParsePass([buf |-> hypr.input, parsed |-> 0,
               active_monitor |-> CurrentState(hypr.monitors).active_monitor,
               sent |-> HyprSend(<<>>,
                                 CurrentState(hypr.monitors).visible_workspaces,
                                 "initial"),
               panic |-> ""],
              hypr.monitors).sent

\* the sends so far are the first of those of the one-read run, and all of
\* them once the stream is read to its end
SameAsOneRead ==
    /\ Len(hypr.sent) <= Len(SentInOneRead)
    /\ hypr.sent = SubSeq(SentInOneRead, 1, Len(hypr.sent))
    /\ hypr.stream = <<>> /\ hypr.status = "run" => hypr.sent = SentInOneRead

\* C31: however the stream is split into reads, the loop does not crash
\* while the socket is open and sends what it sends when the stream arrives
\* in one read, no record dropped and none sent twice.
C31_ChunkingIndependent ==
    /\ hypr.status = "panicked" =>
            hypr.panic = "Hyperland events socket disconnected"
    /\ SameAsOneRead

\* C40, the state at a read: parsed is 0, and filled is less than the length
\* of the buffer, so the slice read into is not empty.
C40_BufferState ==
    hypr.status = "run" =>
        /\ 0 <= Len(hypr.buf)
        /\ Len(hypr.buf) < hypr.buf_len
        /\ hypr.consumed >= 0

\* C40, the step of a read that does not panic: the buffer doubles exactly
\* when the read fills it; the bytes consumed end with a record, and what
\* is kept at the front is exactly the rest, which holds no whole record.
C40_BufferStep ==
    hypr.status = "run" /\ hypr'.status = "run" /\ hypr' # hypr =>
        LET n == Len(hypr.stream) - Len(hypr'.stream)
            all == hypr.buf \o SubSeq(hypr.stream, 1, n)
        IN  /\ n > 0
            /\ hypr'.buf_len = IF Len(all) = hypr.buf_len
                               THEN 2 * hypr.buf_len ELSE hypr.buf_len
            /\ hypr'.consumed <= Len(all)
            /\ hypr'.consumed > 0 => all[hypr'.consumed] = "\n"
            /\ hypr'.buf = SubSeq(all, hypr'.consumed + 1, Len(all))
            /\ \A k \in 1..Len(hypr'.buf) : hypr'.buf[k] # "\n"

\* C40: at every read 0 <= parsed <= filled < buf.len(); the buffer doubles
\* whenever a read fills it; after a parse pass the bytes not consumed are
\* at the front, parsed is 0, and they are exactly the bytes of the
\* incomplete last record.
C40_ReadBufferKept == [](C40_BufferState) /\ [][C40_BufferStep]_vars

\* a read filled the buffer, which has doubled; records were consumed and
\* the start of the next one was moved to the front
C40_Witness ==
    /\ hypr.status = "run"
    /\ hypr.buf_len = 2 * HyprBufLen
    /\ hypr.consumed > 0
    /\ hypr.buf # <<>>

\* the sends caused by workspace events, in order
WorkspaceSends ==
    LET at == { k \in 1..Len(hypr.sent) : hypr.sent[k].from = "workspace" }
    IN  [j \in 1..Cardinality(at) |->
            hypr.sent[CHOOSE k \in at :
                        Cardinality({ i \in at : i <= k }) = j]]

\* C32: every workspace event is sent with the output that was focused in
\* Hyprland when the event was written.
C32_WorkspaceOnFocusedOutput ==
    \A j \in 1..Len(WorkspaceSends) :
        j <= Len(hypr.tags) /\ WorkspaceSends[j].output = hypr.tags[j]

\* an update_output call that found its layer has just run
Updated == last.op = "update_output" /\ last.reports # <<ErrUpdatedNoLayer>>

\* the fields of a layer that an update must leave alone
KeptByUpdate(l) ==
    <<l.output_name, l.workspace_backgrounds, l.width, l.height, l.transform,
      l.configured, l.current_workspace>>

C33_Logged == Updated /\ last.detail = 1 => WarnNotImplemented \in Range(last.reports)

C33_Step ==
    Updated' =>
        /\ Len(background_layers') = Len(background_layers)
        /\ \A i \in 1..Len(background_layers) :
                KeptByUpdate(background_layers'[i]) = KeptByUpdate(background_layers[i])
        /\ wallpapers' = wallpapers

C33_NothingPatched == [][C33_Step]_vars

\* C33: an update_output call for an output whose resolution or transform
\* differs from what new_output recorded logs the not-implemented warning,
\* and it leaves every layer's workspace backgrounds, width, height,
\* transform, configured flag and current workspace as they were.
C33_ChangeLoggedNothingPatched == [](C33_Logged) /\ C33_NothingPatched

\* what the compositor shows on an output: its visible workspace there, as
\* the one item to send, or nothing
ShownOn(listing, output) ==
    LET k == FirstIndex(listing, { w \in Range(listing) :
                                     w.visible /\ w.output = output })
    IN  IF k = 0 THEN <<>>
        ELSE << WorkspaceVisible(output, listing[k].name) >>

C34_Step ==
    last'.op = "configure" /\ last'.requests # <<>> /\ last' # last =>
        channel' = channel \o ShownOn(boot.workspaces, last'.output)

\* C34: the request of an output's first configure enqueues exactly the
\* item of the workspace the compositor shows on that output, focused or
\* not, and nothing when it shows none there.
C34_FirstConfigureEnqueuesShown == [][C34_Step]_vars

\* the wl_buffer a name resolves to on a layer: that of the slot with the
\* name, or else of the _default slot
ResolvedBuffer(l, workspace_name) ==
    LET named == { k \in 1..Len(l.workspace_backgrounds) :
                     l.workspace_backgrounds[k].workspace_name = workspace_name }
        dflt == { k \in 1..Len(l.workspace_backgrounds) :
                    l.workspace_backgrounds[k].workspace_name = DefaultKey }
        k == CHOOSE k \in (IF named # {} THEN named ELSE dflt) :
                \A j \in (IF named # {} THEN named ELSE dflt) : k <= j
    IN  l.workspace_backgrounds[k].wallpaper

\* C35, per step: a draw that goes through issues attach of the resolved
\* buffer, damage_buffer, commit, in this order and nothing else, adds one
\* to the active_count of that Wallpaper alone and makes the name current.
C35_DrawStep ==
    IsDrawStep /\ last'.requests # <<>> =>
        LET i == LayerIndex(Head(channel).output)
            name == Head(channel).workspace_name
            buf == ResolvedBuffer(background_layers[i], name)
        IN  /\ last'.requests = << Request("attach", Head(channel).output, buf),
                                  Request("damage_buffer", Head(channel).output, 0),
                                  Request("commit", Head(channel).output, 0) >>
            /\ wallpapers' = [wallpapers EXCEPT ![buf].active_count = @ + 1]
            /\ background_layers' =
                    [background_layers EXCEPT ![i].current_workspace = name]

\* C35, per state: the active_count of the audited Wallpaper is the number
\* of its attaches less the number of its releases that were not clamped
\* (surplus is releases less attaches, anomalies the clamped releases)
C35_CountState ==
    audit.on /\ ~wallpapers[1].destroyed =>
        wallpapers[1].active_count = (0 - audit.surplus) + audit.anomalies

\* C35: a successful draw is one attach of the resolved buffer, one
\* damage, one commit, one more active use and the requested name made
\* current; so the active_count is attaches less unclamped releases.
C35_DrawCountsOneAttach == [](C35_CountState) /\ [][C35_DrawStep]_vars

\* the audited buffer was attached just now, is in use once, and a release
\* of it was clamped earlier
C35_Witness ==
    /\ audit.on
    /\ last.op = "draw"
    /\ last.requests # <<>>
    /\ last.requests[1].buffer = 1
    /\ audit.anomalies >= 1
    /\ wallpapers[1].active_count = 1

\* this step is a draw, on a configured layer, of a name that is not the
\* layer's current workspace
DrawsOtherName ==
    /\ IsDrawStep
    /\ LayerIndex(Head(channel).output) # 0
    /\ background_layers[LayerIndex(Head(channel).output)].configured
    /\ background_layers[LayerIndex(Head(channel).output)].current_workspace
            # Head(channel).workspace_name

\* this step attaches, counts the attach and makes the requested name current
AttachesRequested ==
    LET i == LayerIndex(Head(channel).output)
        buf == last'.requests[1].buffer
    IN  /\ IsOneAttach(last'.requests)
        /\ wallpapers'[buf].active_count = wallpapers[buf].active_count + 1
        /\ background_layers'[i].current_workspace = Head(channel).workspace_name

\* C36 as stated: on a configured output every draw of a name other than
\* the current workspace attaches, commits, counts and makes the name
\* current.
C36_OtherNameAlwaysAttaches == [][DrawsOtherName => AttachesRequested]_vars

C36_Step ==
    LET i == LayerIndex(Head(channel).output)
        l == background_layers[i]
        name == Head(channel).workspace_name
    IN  /\ DrawsOtherName /\ FindWorkspaceBg(l.workspace_backgrounds, name) # 0 =>
                /\ AttachesRequested
                /\ last'.requests[1].buffer = ResolvedBuffer(l, name)
        /\ DrawsOtherName /\ FindWorkspaceBg(l.workspace_backgrounds, name) = 0 =>
                /\ last'.requests = <<>>
                /\ last'.reports = <<ErrNoWallpaper>>
                /\ UNCHANGED <<background_layers, wallpapers>>

\* C36, amended: on a configured output a draw of a name other than the
\* current workspace, when the name resolves to a slot (its own or
\* _default), attaches that slot's buffer, commits, counts the attach and
\* makes the requested name current, whichever Wallpaper is attached
\* already; a name that resolves to no slot attaches nothing.
C36_RedundancyByNameOnly == [][C36_Step]_vars

\* a draw has attached the buffer that the layer's former current
\* workspace, another name, resolves to as well: the buffer is attached
\* again, and the current workspace is the new name
C36_Witness ==
    /\ DrewOnLayer
    /\ last.requests # <<>>
    /\ last.was_current # NoWorkspace
    /\ last.was_current # last.workspace
    /\ FindWorkspaceBg(LastLayer.workspace_backgrounds, last.was_current) # 0
    /\ ResolvedBuffer(LastLayer, last.was_current) = last.requests[1].buffer
    /\ LastLayer.current_workspace = last.workspace
    /\ wallpapers[last.requests[1].buffer].active_count = 2

\* this step is a run of the release handler
IsReleaseStep == last'.op = "release" /\ last' # last

C37_Step ==
    IsReleaseStep =>
        LET proxy == last'.detail
            n == wallpapers[proxy].active_count
        IN  /\ wallpapers' = [wallpapers EXCEPT ![proxy].active_count =
                                    IF n >= 1 THEN n - 1 ELSE n]
            /\ UNCHANGED <<background_layers, outputs>>

\* C37: one release lowers the active_count of the released Wallpaper by
\* one (by nothing at zero), however many slots and outputs refer to it,
\* and changes no other Wallpaper, no reference count and no layer.
C37_OneReleaseOneDecrement == [][C37_Step]_vars

\* a Wallpaper held by several slots had two active uses when it was
\* released, and has one now
C37_Witness ==
    /\ last.op = "release"
    /\ last.was_active = 2
    /\ wallpapers[last.detail].active_count = 1
    /\ wallpapers[last.detail].strong >= 2

C38_Step ==
    /\ IsDrawStep /\ LayerIndex(Head(channel).output) = 0 =>
            /\ last'.requests = <<>>
            /\ last'.reports = <<ErrUnknownOutput>>
            /\ UNCHANGED <<outputs, background_layers, wallpapers>>
            /\ loop'.pc = loop.pc
    /\ IsDrawStep /\ LayerIndex(Head(channel).output) # 0 =>
            /\ Len(background_layers') = Len(background_layers)
            /\ \A j \in 1..Len(background_layers) :
                    j # LayerIndex(Head(channel).output) =>
                        background_layers'[j] = background_layers[j]
    /\ loop.pc = "drain" /\ loop'.pc # "drain" => channel = <<>>

\* C38: an item naming an output without a layer is reported and dropped,
\* no layer and no Wallpaper changing, and the pass goes on until the
\* channel is empty; a draw on one output changes no other output's layer.
C38_UnknownOutputDropped == [][C38_Step]_vars

\* in one pass of the drain an item for an output without a layer was
\* dropped and the item behind it was drawn
C38_Witness ==
    /\ loop.pc = "drain"
    /\ loop.in_pass >= 2
    /\ LayerIndex(loop.handled[Len(loop.handled) - 1].output) = 0
    /\ last.op = "draw"
    /\ last.requests # <<>>

\* the sources poll reported in this turn, in the order of the loop body
ReadySources ==
    (IF loop.wl THEN <<"wayland">> ELSE <<>>)
        \o (IF loop.ready THEN <<"compositor">> ELSE <<>>)
        \o (IF loop.signal THEN <<"signal">> ELSE <<>>)

\* C39, per state: within a turn the sources handled so far are the first
\* of the ready ones, display socket, channel, signal pipe; the items
\* handled are the first of the items sent, in the order of sending; and
\* when run() has returned on a termination signal every ready source was
\* handled before, the channel among them up to the last item sent before
\* the waker was read.
C39_OrderState ==
    /\ Len(loop.order) <= Len(ReadySources)
    /\ loop.order = SubSeq(ReadySources, 1, Len(loop.order))
    /\ Len(loop.handled) <= Len(loop.sent)
    /\ loop.handled = SubSeq(loop.sent, 1, Len(loop.handled))
    /\ loop.pc = "signal" => loop.signal /\ Len(loop.order) = Len(ReadySources) - 1
    /\ loop.pc = "returned" =>
            /\ proc.status = "exited"
            /\ loop.order = ReadySources
            /\ loop.order[Len(loop.order)] = "signal"
            /\ loop.ready => Len(loop.handled) >= loop.at_read

\* C39, per step: once run() has returned no handler runs and no item is
\* received.
C39_ExitStep ==
    loop.pc = "returned" =>
        UNCHANGED <<outputs, background_layers, wallpapers, channel, last, loop>>

\* C39: the ready sources of a turn are handled in the order display
\* socket, channel, signal pipe, each in its own order of emission; at the
\* exit on a termination signal the display events and the items ready in
\* that turn have been handled, and nothing is handled after it.
C39_FixedOrderThenExit == [](C39_OrderState) /\ [][C39_ExitStep]_vars

\* run() has returned in a turn where poll reported all three sources, an
\* item having been drawn in that turn
C39_Witness ==
    /\ loop.pc = "returned"
    /\ loop.order = <<"wayland", "compositor", "signal">>
    /\ loop.in_pass >= 1
    /\ proc.exited_on = "TERM"
====
